---- MODULE Spec2Model ----
(***************************************************************************)
(* CDSirius: one orchestration run of the SIRIUS node (node.py             *)
(* CDSirius.run) against the remote SIRIUS service (sirius.py Sirius).     *)
(* The run is a sequential program; pc is its position.  Every remote      *)
(* call is recorded in calls with its outcome, every log line in log.      *)
(* A remote call either answers or raises; the answer is drawn from the    *)
(* service state svc.                                                      *)
(*                                                                         *)
(* Spec and SpecLive follow the whole run, with _load_features and         *)
(* retrieve_results as single steps.  SpecLoad follows _load_features      *)
(* feature by feature, SpecHarvest and SpecRows follow retrieve_results    *)
(* call by call, each from the state in which the run enters them;         *)
(* SpecLinks does so over the database links of the candidates.            *)
(* SpecSilencer follows one Silencer scope (silencer.py) of __enter__ or   *)
(* __exit__ over the descriptor table of the process.                      *)
(***************************************************************************)
EXTENDS Integers, Sequences, FiniteSets, TLC

VARIABLES
    pc,        \* position of the run
    exc,       \* exception in flight: "none" or its message / kind
    session,   \* the with-statement: "acquiring", "open", "failed", "closed"
    api,       \* Sirius._api: "none", "attached", "started"
    cfg,       \* SiriusConfig fields read by the run
    svc,       \* remote service: alive, loggedIn, projects, job
    project,   \* local variable project of CDSirius.run: "none" or its id
    job,       \* job specification built by init_job, or NoJob
    success,   \* value returned by start_job: "unset", "True", "False"
    state,     \* local variable state of start_job: last job state fetched
    polls,     \* iterations of the polling loop begun
    sleeps,    \* time.sleep calls made by the polling loop
    clock,     \* total time slept by the run
    results,   \* local variable results of CDSirius.run
    exported,  \* whether _export_results ran
    status,    \* process exit status: "running", 0, 1
    calls,     \* remote calls issued, in order, with their outcome
    log,       \* log lines written, in order
    features,       \* aligned features the service holds, in its list order
    feature_ids,    \* local variable feature_ids of retrieve_results
    fi,             \* position of the loop of retrieve_results in feature_ids
    annotations,    \* buffers of retrieve_results (435-439)
    formulas,
    classes,
    structures,
    denovo,
    class_tree_id,  \* class_tree_id[0] of retrieve_results (440); 0 before
    fingerprints,   \* value returned by _retrieve_fingerprints
    data,           \* features read by _load_features from the input file
    loaded,         \* value returned by _load_features
    fds,            \* descriptor table of the process: descriptor -> stream
    before,         \* the descriptor table when the Silencer scope began
    silencer,       \* fields of the Silencer instance, or NoSilencer
    closed,         \* descriptors passed to os.close, in order
    written         \* what the body of the scope wrote: descriptor, stream

vars == <<pc, exc, session, api, cfg, svc, project, job, success, state,
          polls, sleeps, clock, results, exported, status, calls, log,
          features, feature_ids, fi, annotations, formulas, classes,
          structures, denovo, class_tree_id, fingerprints, data, loaded,
          fds, before, silencer, closed, written>>

\* state of retrieve_results and of _load_features
hvars == <<features, feature_ids, fi, annotations, formulas, classes,
           structures, denovo, class_tree_id, fingerprints>>
lvars == <<data, loaded>>

\* state of a Silencer scope
svars == <<fds, before, silencer, closed, written>>

\* ------------------------------------------------------------------ bounds

\* iterations of the polling loop the model follows
MaxPolls == 3

\* ------------------------------------------------------- program constants

\* time.sleep(10) in Sirius.start and in the polling loop of Sirius.start_job
StartWait == 10
PollInterval == 10

Terminal == {"DONE", "CANCELED", "FAILED"}

\* value of job before init_job has built one
NoJob == [built |-> FALSE]

\* id of the project created by this run, and of a project other clients hold
RunProject == "run"
OtherProject == "other"

\* ----------------------------------------------------------------- helpers

Entry(level, msg) == [level |-> level, msg |-> msg]
Call(op, res) == [op |-> op, res |-> res]

Logged(level, msg) == \E i \in 1..Len(log) : log[i] = Entry(level, msg)
Called(op) == \E i \in 1..Len(calls) : calls[i].op = op
CallCount(op) == Cardinality({i \in 1..Len(calls) : calls[i].op = op})
Issued(op, res) == \E i \in 1..Len(calls) : calls[i] = Call(op, res)

\* ------------------------------------------------------------------- Init

\* retrieve_results not entered: its locals are unbound, and the run reads
\* nothing of the features the service would list.
NoHarvest ==
    /\ features = << >>
    /\ feature_ids = << >>
    /\ fi = 0
    /\ annotations = << >>
    /\ formulas = << >>
    /\ classes = << >>
    /\ structures = << >>
    /\ denovo = << >>
    /\ class_tree_id = 0
    /\ fingerprints = "unbound"

\* _load_features not followed feature by feature
NoLoad ==
    /\ data = << >>
    /\ loaded = "unbound"

\* value of silencer while no Silencer exists
NoSilencer == [built |-> FALSE]

\* The descriptors are not followed: the process holds its three standard
\* streams, no Silencer exists.
NoScope ==
    /\ fds = [ fd \in {0, 1, 2} |-> << "stdin", "stdout", "stderr" >>[fd + 1] ]
    /\ before = fds
    /\ silencer = NoSilencer
    /\ closed = << >>
    /\ written = << >>

\* State after _load_params and Sirius.__init__: _api is None, nothing
\* called yet.  The service may or may not be running; a running service
\* may hold a project of another client.
Init ==
    /\ pc = "connect"
    /\ exc = "none"
    /\ session = "acquiring"
    /\ api = "none"
    /\ cfg \in [ account_username : {"", "user"},
                 account_password : {"", "secret"},
                 structure_db_search_enabled : BOOLEAN,
                 canopus_enabled : BOOLEAN,
                 ms_novelist_enabled : BOOLEAN ]
    /\ svc \in { s \in [ alive : BOOLEAN,
                         loggedIn : BOOLEAN,
                         projects : SUBSET {OtherProject},
                         job : {"none"} ] :
                   ~s.alive => s.projects = {} }
    /\ project = "none"
    /\ job = NoJob
    /\ success = "unset"
    /\ state = "none"
    /\ polls = 0
    /\ sleeps = 0
    /\ clock = 0
    /\ results = "unbound"
    /\ exported = FALSE
    /\ status = "running"
    /\ calls = << >>
    /\ log = << >>
    /\ NoHarvest
    /\ NoLoad
    /\ NoScope

\* An exception leaves run() uncaught: the interpreter ends with status 1.
\* Used where no handler of run() is in scope.
Uncaught(e) ==
    /\ exc' = e
    /\ pc' = "done"
    /\ status' = 1

\* ------------------------------------------------- Sirius.__enter__ (82-99)

\* start() entered whatever connect() returned
AfterConnect_AlwaysStart(connected) == "start"

\* Which step follows connect() in __enter__: login when connect() returned
\* True, start() otherwise.
AfterConnect(connected) == IF connected THEN "login" ELSE "start"

\* __enter__ up to and including connect().  An exception raised inside
\* __enter__ leaves the with statement before its body: __exit__ is not run.
Connect ==
    /\ pc = "connect"
    /\ \E r \in {"handle", "none", "raise"} :
        /\ r = "handle" => svc.alive
        /\ r = "none" => ~svc.alive
        /\ calls' = Append(calls, Call("attach_to_sirius", r))
        /\ CASE r = "handle" ->
                  /\ api' = "attached"
                  /\ log' = log \o << Entry("TEMP", "Connecting to SIRIUS service..."),
                                      Entry("VERBOSE", "Connected to running SIRIUS service.") >>
                  /\ pc' = AfterConnect(TRUE)
                  /\ UNCHANGED <<exc, session, status>>
             [] r = "none" ->
                  /\ api' = "none"
                  /\ log' = log \o << Entry("TEMP", "Connecting to SIRIUS service..."),
                                      Entry("VERBOSE", "Unable to find running SIRIUS service.") >>
                  /\ pc' = AfterConnect(FALSE)
                  /\ UNCHANGED <<exc, session, status>>
             [] r = "raise" ->
                  /\ api' = api
                  /\ log' = log \o << Entry("TEMP", "Connecting to SIRIUS service..."),
                                      Entry("ERROR", "Unable to connect to SIRIUS service!") >>
                  /\ session' = "failed"
                  /\ Uncaught("RemoteError")
    /\ UNCHANGED <<cfg, svc, project, job, success, state, polls, sleeps,
                   clock, results, exported>>
    /\ UNCHANGED <<hvars, lvars, svars>>

\* start(), reached only when connect() returned False.
Start ==
    /\ pc = "start"
    /\ \E r \in {"handle", "none", "raise"} :
        /\ calls' = Append(calls, Call("start_sirius", r))
        /\ CASE r = "handle" ->
                  /\ api' = "started"
                  /\ svc' = [svc EXCEPT !.alive = TRUE]
                  /\ clock' = clock + StartWait
                  /\ log' = log \o << Entry("TEMP", "Starting new SIRIUS service..."),
                                      Entry("VERBOSE", "SIRIUS service started.") >>
                  /\ pc' = "login"
                  /\ UNCHANGED <<exc, session, status>>
             [] r = "none" ->
                  /\ api' = "none"
                  /\ svc' = svc
                  /\ clock' = clock + StartWait
                  /\ log' = log \o << Entry("TEMP", "Starting new SIRIUS service..."),
                                      Entry("VERBOSE", "Unable to start SIRIUS service.") >>
                  /\ session' = "failed"
                  /\ Uncaught("Unable to connect or start SIRIUS service!")
             [] r = "raise" ->
                  /\ api' = api
                  /\ svc' = svc
                  /\ clock' = clock
                  /\ log' = log \o << Entry("TEMP", "Starting new SIRIUS service..."),
                                      Entry("ERROR", "Unable to start SIRIUS service!") >>
                  /\ session' = "failed"
                  /\ Uncaught("RemoteError")
    /\ UNCHANGED <<cfg, project, job, success, state, polls, sleeps,
                   results, exported>>
    /\ UNCHANGED <<hvars, lvars, svars>>

\* The credentials check of login() (195): both fields non-empty.
HasCredentials(c) == c.account_username # "" /\ c.account_password # ""

\* login() and the check of its result in __enter__ (96-97): a False from
\* login() raises RuntimeError, like any exception inside __enter__.
Login ==
    /\ pc = "login"
    /\ \E r \in {"answer", "raise"} :
        IF r = "raise" THEN
            \* is_logged_in() raises: outside any try of login()
            /\ calls' = Append(calls, Call("is_logged_in", "raise"))
            /\ log' = log \o << Entry("TEMP", "Connecting to SIRIUS user account...") >>
            /\ session' = "failed"
            /\ Uncaught("RemoteError")
            /\ UNCHANGED svc
        ELSE IF svc.loggedIn THEN
            \* returns True
            /\ calls' = Append(calls, Call("is_logged_in", "True"))
            /\ log' = log \o << Entry("TEMP", "Connecting to SIRIUS user account..."),
                                Entry("VERBOSE", "SIRIUS account already connected.") >>
            /\ session' = "open"
            /\ pc' = "init_project"
            /\ UNCHANGED <<exc, status, svc>>
        ELSE IF ~HasCredentials(cfg) THEN
            \* returns False
            /\ calls' = Append(calls, Call("is_logged_in", "False"))
            /\ log' = log \o << Entry("TEMP", "Connecting to SIRIUS user account..."),
                                Entry("WARNING", "SIRIUS account credentials not specified!") >>
            /\ session' = "failed"
            /\ Uncaught("Unable to login to SIRIUS account!")
            /\ UNCHANGED svc
        ELSE \E l \in {"ok", "raise"} :
            /\ calls' = calls \o << Call("is_logged_in", "False"), Call("login", l) >>
            /\ IF l = "ok"
                 THEN \* returns True
                      /\ svc' = [svc EXCEPT !.loggedIn = TRUE]
                      /\ log' = log \o << Entry("TEMP", "Connecting to SIRIUS user account..."),
                                          Entry("VERBOSE", "SIRIUS account connected.") >>
                      /\ session' = "open"
                      /\ pc' = "init_project"
                      /\ UNCHANGED <<exc, status>>
                 ELSE /\ svc' = svc
                      /\ log' = log \o << Entry("TEMP", "Connecting to SIRIUS user account..."),
                                          Entry("ERROR", "Unable to login to SIRIUS account!") >>
                      /\ session' = "failed"
                      /\ Uncaught("RemoteError")
    /\ UNCHANGED <<api, cfg, project, job, success, state, polls, sleeps,
                   clock, results, exported>>
    /\ UNCHANGED <<hvars, lvars, svars>>

\* ---------------------------------------- body of the with statement (44-70)

\* An exception raised inside the try block of run(): every one the model
\* raises derives from Exception, so the except clause (63) takes it.
Raise(e) ==
    /\ exc' = e
    /\ pc' = "except"

\* init_project(): remove a stale project file, then create the project.
InitProject ==
    /\ pc = "init_project"
    /\ \E r \in {"ok", "raise", "remove_raise"} :
        CASE r = "ok" ->
               /\ calls' = Append(calls, Call("create_project", "ok"))
               /\ svc' = [svc EXCEPT !.projects = @ \cup {RunProject}]
               /\ project' = RunProject
               /\ log' = log \o << Entry("TEMP", "Creating SIRIUS project..."),
                                   Entry("VERBOSE", "SIRIUS project space created.") >>
               /\ pc' = "load_features"
               /\ exc' = exc
          [] r = "raise" ->
               /\ calls' = Append(calls, Call("create_project", "raise"))
               /\ log' = log \o << Entry("TEMP", "Creating SIRIUS project..."),
                                   Entry("ERROR", "Unable to initialize SIRIUS project space!") >>
               /\ Raise("RemoteError")
               /\ UNCHANGED <<svc, project>>
          [] r = "remove_raise" ->
               \* os.remove fails: outside the try of init_project
               /\ log' = log \o << Entry("TEMP", "Creating SIRIUS project...") >>
               /\ Raise("OSError")
               /\ UNCHANGED <<svc, project, calls>>
    /\ UNCHANGED <<session, api, cfg, job, success, state, polls, sleeps,
                   clock, results, exported, status>>
    /\ UNCHANGED <<hvars, lvars, svars>>

\* CDSirius._load_features(): reads and converts the feature file.
LoadFeatures ==
    /\ pc = "load_features"
    /\ log' = log \o << Entry("TEMP", "Loading SIRIUS features...") >>
    /\ \E r \in {"ok", "raise"} :
        IF r = "ok" THEN pc' = "set_features" /\ exc' = exc
                    ELSE Raise("DataError")
    /\ UNCHANGED <<session, api, cfg, svc, project, job, success, state, polls,
                   sleeps, clock, results, exported, status, calls>>
    /\ UNCHANGED <<hvars, lvars, svars>>

\* set_features(): convert every feature, then one add_aligned_features call.
SetFeatures ==
    /\ pc = "set_features"
    /\ \E r \in {"ok", "raise", "convert_raise"} :
        CASE r = "ok" ->
               /\ calls' = Append(calls, Call("add_aligned_features", "ok"))
               /\ log' = log \o << Entry("TEMP", "Setting features to SIRIUS...") >>
               /\ pc' = "init_job"
               /\ exc' = exc
          [] r = "raise" ->
               /\ calls' = Append(calls, Call("add_aligned_features", "raise"))
               /\ log' = log \o << Entry("TEMP", "Setting features to SIRIUS..."),
                                   Entry("ERROR", "Unable to set features to SIRIUS service!") >>
               /\ Raise("RemoteError")
          [] r = "convert_raise" ->
               /\ calls' = calls
               /\ log' = log \o << Entry("TEMP", "Setting features to SIRIUS..."),
                                   Entry("ERROR", "Unable to convert features for SIRIUS service!") >>
               /\ Raise("DataError")
    /\ UNCHANGED <<session, api, cfg, svc, project, job, success, state, polls,
                   sleeps, clock, results, exported, status>>
    /\ UNCHANGED <<hvars, lvars, svars>>

\* the toggles copied from the config without the check of line 294
JobSpec_Ungated(c) ==
    [ spectra_search_enabled |-> FALSE,
      structure_db_search_enabled |-> c.structure_db_search_enabled,
      canopus_enabled |-> c.canopus_enabled,
      ms_novelist_enabled |-> c.ms_novelist_enabled ]

\* The stage toggles init_job() writes into the default job template.
JobSpec(c) ==
    [ spectra_search_enabled |-> FALSE,
      structure_db_search_enabled |-> c.structure_db_search_enabled,
      canopus_enabled |->
          IF c.structure_db_search_enabled THEN c.canopus_enabled ELSE FALSE,
      ms_novelist_enabled |->
          IF c.structure_db_search_enabled THEN c.ms_novelist_enabled ELSE FALSE ]

\* init_job(): fetch the default template and configure it.
InitJob ==
    /\ pc = "init_job"
    /\ \E r \in {"ok", "raise"} :
        /\ calls' = Append(calls, Call("get_default_job_config", r))
        /\ IF r = "ok"
             THEN /\ job' = JobSpec(cfg)
                  /\ log' = log \o << Entry("TEMP", "Creating SIRIUS job...") >>
                  /\ pc' = "start_job"
                  /\ exc' = exc
             ELSE /\ job' = job
                  /\ log' = log \o << Entry("TEMP", "Creating SIRIUS job..."),
                                      Entry("ERROR", "Unable to initialize SIRIUS job!") >>
                  /\ Raise("RemoteError")
    /\ UNCHANGED <<session, api, cfg, svc, project, success, state, polls,
                   sleeps, clock, results, exported, status>>
    /\ UNCHANGED <<hvars, lvars, svars>>

\* ------------------------------------------------- Sirius.start_job (311-353)

\* Submission of the job (316-323).
StartJob ==
    /\ pc = "start_job"
    /\ \E r \in {"ok", "raise"} :
        /\ calls' = Append(calls, Call("start_job", r))
        /\ IF r = "ok"
             THEN /\ svc' = [svc EXCEPT !.job = "QUEUED"]
                  /\ log' = log \o << Entry("TEMP", "Submitting SIRIUS job..."),
                                      Entry("VERBOSE", "SIRIUS job started.") >>
                  /\ pc' = "poll_state"
                  /\ exc' = exc
             ELSE /\ svc' = svc
                  /\ log' = log \o << Entry("TEMP", "Submitting SIRIUS job..."),
                                      Entry("ERROR", "Could not submit SIRIUS job!") >>
                  /\ Raise("RemoteError")
    /\ UNCHANGED <<session, api, cfg, project, job, success, state, polls,
                   sleeps, clock, results, exported, status>>
    /\ UNCHANGED <<hvars, lvars, svars>>

\* The remote job moves on its own: QUEUED, RUNNING, then one terminal state.
ServiceJobStep ==
    /\ pc \in {"poll_state", "poll_progress", "poll_max"}
    /\ \/ svc.job = "QUEUED" /\ svc' = [svc EXCEPT !.job = "RUNNING"]
       \/ svc.job = "RUNNING" /\ \E t \in Terminal : svc' = [svc EXCEPT !.job = t]
    /\ UNCHANGED <<pc, exc, session, api, cfg, project, job, success, state,
                   polls, sleeps, clock, results, exported, status, calls, log>>
    /\ UNCHANGED <<hvars, lvars, svars>>

\* First get_job of an iteration (329): the state the loop decides on.
PollState ==
    /\ pc = "poll_state"
    /\ polls' = polls + 1
    /\ \E r \in {"answer", "raise"} :
        IF r = "answer"
          THEN /\ calls' = Append(calls, Call("get_job", svc.job))
               /\ state' = svc.job
               /\ pc' = "poll_progress"
               /\ exc' = exc
          ELSE /\ calls' = Append(calls, Call("get_job", "raise"))
               /\ state' = state
               /\ Raise("RemoteError")
    /\ UNCHANGED <<session, api, cfg, svc, project, job, success, sleeps,
                   clock, results, exported, status, log>>
    /\ UNCHANGED <<hvars, lvars, svars>>

\* Second get_job of the iteration (332): current_progress.
PollProgress ==
    /\ pc = "poll_progress"
    /\ \E r \in {"answer", "raise"} :
        IF r = "answer"
          THEN /\ calls' = Append(calls, Call("get_job", svc.job))
               /\ pc' = "poll_max"
               /\ exc' = exc
          ELSE /\ calls' = Append(calls, Call("get_job", "raise"))
               /\ Raise("RemoteError")
    /\ UNCHANGED <<session, api, cfg, svc, project, job, success, state, polls,
                   sleeps, clock, results, exported, status, log>>
    /\ UNCHANGED <<hvars, lvars, svars>>

\* Third get_job of the iteration (333): max_progress; a PROGRESS line is
\* logged when it is non-zero (a queued job reports none).
PollMax ==
    /\ pc = "poll_max"
    /\ \E r \in {"answer", "raise"} :
        IF r = "answer"
          THEN /\ calls' = Append(calls, Call("get_job", svc.job))
               /\ log' = IF svc.job # "QUEUED"
                           THEN Append(log, Entry("PROGRESS", "percent"))
                           ELSE log
               /\ pc' = "poll_decide"
               /\ exc' = exc
          ELSE /\ calls' = Append(calls, Call("get_job", "raise"))
               /\ log' = log
               /\ Raise("RemoteError")
    /\ UNCHANGED <<session, api, cfg, svc, project, job, success, state, polls,
                   sleeps, clock, results, exported, status>>
    /\ UNCHANGED <<hvars, lvars, svars>>

\* a loop that gives up on any state other than DONE
Outcome_GivesUp(s) == IF s = "DONE" THEN "True" ELSE "False"

\* What the loop does with the fetched state (338-353): "True" and "False"
\* are the values returned, "sleep" is time.sleep and another iteration.
Outcome(s) ==
    CASE s = "DONE" -> "True"
      [] s \in {"CANCELED", "FAILED"} -> "False"
      [] OTHER -> "sleep"

PollDecide ==
    /\ pc = "poll_decide"
    /\ CASE Outcome(state) = "True" ->
              /\ log' = Append(log, Entry("VERBOSE", "SIRIUS job completed successfully."))
              /\ success' = "True"
              /\ pc' = "check_success"
              /\ UNCHANGED <<sleeps, clock>>
         [] Outcome(state) = "False" ->
              /\ log' = Append(log, Entry("ERROR",
                           IF state = "CANCELED" THEN "SIRIUS job cancelled."
                                                 ELSE "SIRIUS job failed."))
              /\ success' = "False"
              /\ pc' = "check_success"
              /\ UNCHANGED <<sleeps, clock>>
         [] Outcome(state) = "sleep" ->
              /\ polls < MaxPolls
              /\ sleeps' = sleeps + 1
              /\ clock' = clock + PollInterval
              /\ pc' = "poll_state"
              /\ UNCHANGED <<log, success>>
    /\ UNCHANGED <<exc, session, api, cfg, svc, project, job, state, polls,
                   results, exported, status, calls>>
    /\ UNCHANGED <<hvars, lvars, svars>>

\* ------------------------------------------------ rest of the try block

\* the value of start_job ignored
Escalates_Never(ok) == FALSE

\* What run() does with the value of start_job (57-58).
Escalates(ok) == ok # "True"

CheckSuccess ==
    /\ pc = "check_success"
    /\ IF Escalates(success)
         THEN Raise("SIRIUS processing failed.")
         ELSE pc' = "retrieve" /\ exc' = exc
    /\ UNCHANGED <<session, api, cfg, svc, project, job, success, state, polls,
                   sleeps, clock, results, exported, status, calls, log>>
    /\ UNCHANGED <<hvars, lvars, svars>>

\* retrieve_results(): the harvest either returns the tables or raises.
RetrieveResults ==
    /\ pc = "retrieve"
    /\ \E r \in {"ok", "raise"} :
        /\ calls' = Append(calls, Call("get_aligned_features", r))
        /\ IF r = "ok"
             THEN /\ results' = "tables"
                  /\ log' = log \o << Entry("TEMP", "Retrieving SIRIUS results..."),
                                      Entry("TEMP", "Finalizing SIRIUS results...") >>
                  /\ pc' = "finally"
                  /\ exc' = exc
             ELSE /\ results' = results
                  /\ log' = log \o << Entry("TEMP", "Retrieving SIRIUS results...") >>
                  /\ Raise("RemoteError")
    /\ UNCHANGED <<session, api, cfg, svc, project, job, success, state, polls,
                   sleeps, clock, exported, status>>
    /\ UNCHANGED <<hvars, lvars, svars>>

\* except Exception (63-65): log the exception, then exit(1) raises
\* SystemExit, which the finally clause and __exit__ still see.
Except ==
    /\ pc = "except"
    /\ log' = Append(log, Entry("ERROR", exc))
    /\ exc' = "SystemExit"
    /\ pc' = "finally"
    /\ UNCHANGED <<session, api, cfg, svc, project, job, success, state, polls,
                   sleeps, clock, results, exported, status, calls>>
    /\ UNCHANGED <<hvars, lvars, svars>>

\* finally (68-70) with close_project() (356-367): delete the jobs, then
\* close the project; a failure of either is logged and raised, replacing
\* whatever was in flight.
Finally ==
    /\ pc = "finally"
    /\ IF project = "none"
         THEN UNCHANGED <<exc, svc, calls, log>>
         ELSE \E r \in {"ok", "delete_raise", "close_raise"} :
              CASE r = "ok" ->
                     /\ calls' = calls \o << Call("delete_jobs", "ok"),
                                             Call("close_project", "ok") >>
                     /\ svc' = [svc EXCEPT !.projects = @ \ {project}]
                     /\ log' = Append(log, Entry("TEMP", "Closing SIRIUS jobs and project..."))
                     /\ exc' = exc
                [] r = "delete_raise" ->
                     /\ calls' = Append(calls, Call("delete_jobs", "raise"))
                     /\ svc' = svc
                     /\ log' = log \o << Entry("TEMP", "Closing SIRIUS jobs and project..."),
                                         Entry("ERROR", "Could not close the SIRIUS project!") >>
                     /\ exc' = "RemoteError"
                [] r = "close_raise" ->
                     /\ calls' = calls \o << Call("delete_jobs", "ok"),
                                             Call("close_project", "raise") >>
                     /\ svc' = svc
                     /\ log' = log \o << Entry("TEMP", "Closing SIRIUS jobs and project..."),
                                         Entry("ERROR", "Could not close the SIRIUS project!") >>
                     /\ exc' = "RemoteError"
    /\ pc' = "exit"
    /\ UNCHANGED <<session, api, cfg, project, job, success, state, polls,
                   sleeps, clock, results, exported, status>>
    /\ UNCHANGED <<hvars, lvars, svars>>

\* ------------------------------- Sirius.__exit__ (102-107), shutdown (220-238)

\* shutdown() without the check of line 226
Refuses_Never(projects) == FALSE

\* shutdown() refuses while the service lists any project (226).
Refuses(projects) == projects # {}

\* line 73 reached whatever is in flight
AfterWith_Exports(e) == "export"

\* Where run() goes when the with statement (42-70) is left: on to line 73
\* with nothing in flight, out of run() with the exception otherwise.
AfterWith(e) == IF e = "none" THEN "export" ELSE "done"

\* __exit__ runs shutdown() and returns None, so an exception in flight
\* keeps propagating out of run(); with none, run() goes on to the export.
Shutdown ==
    /\ pc = "exit"
    /\ session' = "closed"
    /\ \E r \in {"answer", "raise"}, s \in {"200", "500", "raise"} :
        IF r = "raise" THEN
            /\ s = "200"
            /\ calls' = Append(calls, Call("get_projects", "raise"))
            /\ log' = Append(log, Entry("TEMP", "Shutting down SIRIUS service..."))
            /\ exc' = "RemoteError"
            /\ svc' = svc
        ELSE IF Refuses(svc.projects) THEN
            /\ s = "200"
            /\ calls' = Append(calls, Call("get_projects", "open"))
            /\ log' = log \o << Entry("TEMP", "Shutting down SIRIUS service..."),
                                Entry("WARNING", "SIRIUS service cannot be shut down due to running projects!") >>
            /\ exc' = exc
            /\ svc' = svc
        ELSE
            /\ calls' = calls \o << Call("get_projects", IF svc.projects = {} THEN "empty" ELSE "open"),
                                    Call("shutdown", s) >>
            /\ CASE s = "200" ->
                      /\ log' = log \o << Entry("TEMP", "Shutting down SIRIUS service..."),
                                          Entry("VERBOSE", "SIRIUS service stopped.") >>
                      /\ svc' = [svc EXCEPT !.alive = FALSE, !.projects = {}]
                      /\ exc' = exc
                 [] s = "500" ->
                      /\ log' = Append(log, Entry("TEMP", "Shutting down SIRIUS service..."))
                      /\ svc' = svc
                      /\ exc' = exc
                 [] s = "raise" ->
                      /\ log' = log \o << Entry("TEMP", "Shutting down SIRIUS service..."),
                                          Entry("ERROR", "Unable to shut down SIRIUS service!") >>
                      /\ svc' = svc
                      /\ exc' = "RemoteError"
    /\ pc' = AfterWith(exc')
    /\ status' = (IF exc' = "none" THEN status ELSE 1)
    /\ UNCHANGED <<api, cfg, project, job, success, state, polls, sleeps,
                   clock, results, exported>>
    /\ UNCHANGED <<hvars, lvars, svars>>

\* _export_results(results) (73): reached only when nothing is in flight.
ExportResults ==
    /\ pc = "export"
    /\ exported' = TRUE
    /\ log' = Append(log, Entry("TEMP", "Exporting SIRIUS results..."))
    /\ pc' = "done"
    /\ status' = 0
    /\ UNCHANGED <<exc, session, api, cfg, svc, project, job, success, state,
                   polls, sleeps, clock, results, calls>>
    /\ UNCHANGED <<hvars, lvars, svars>>

\* The steps of the program, as opposed to those of the remote job.
Run ==
    \/ Connect \/ Start \/ Login
    \/ InitProject \/ LoadFeatures \/ SetFeatures \/ InitJob
    \/ StartJob
    \/ PollState \/ PollProgress \/ PollMax \/ PollDecide
    \/ CheckSuccess \/ RetrieveResults
    \/ Except \/ Finally \/ Shutdown \/ ExportResults

Next == Run \/ ServiceJobStep

Spec == Init /\ [][Next]_vars

\* A run under the stage toggles SiriusConfig is constructed with (53-66);
\* the polling loop reads none of them.
InitLive ==
    /\ Init
    /\ cfg.structure_db_search_enabled
    /\ cfg.canopus_enabled
    /\ cfg.ms_novelist_enabled

\* The interpreter always takes the next step of the single-threaded run;
\* nothing obliges the remote job to move.
SpecLive == InitLive /\ [][Next]_vars /\ WF_vars(Run)

\* ===================================================== retrieve_results
\* The harvest of retrieve_results (sirius.py 419-492), one action per
\* remote call.  It starts where the run calls it (node.py 61) and ends
\* where the run continues: in the finally clause after a return, in the
\* except clause after an exception.

\* ------------------------------------------------------------------ bounds

\* aligned features the service lists
MaxFeatures == 2
\* structure (de-novo) candidates the service holds for one feature
MaxCands == 3
\* largest rank of a candidate, and largest value of the two rank caps
MaxRank == 4

\* ----------------------------------------------------------------- values

\* Python None, pandas NaN, and a value that is neither
None == [kind |-> "None"]
NaN == [kind |-> "NaN"]
Val(v) == [kind |-> "val", v |-> v]

\* the pair (None, None) returned at line 546
NoneTuple == [kind |-> "tuple"]

\* a pandas DataFrame: rows is a function from index labels to rows
Table(rows) == [kind |-> "table", rows |-> rows]

\* one remote call of the harvest for feature feat_id
FeatCall(op, feat_id, res) == [op |-> op, feat |-> feat_id, res |-> res]

\* the elements of a finite set of integers in increasing order
RECURSIVE Sorted(_)
Sorted(S) ==
    IF S = {} THEN << >>
    ELSE LET m == CHOOSE x \in S : \A y \in S : x <= y
         IN << m >> \o Sorted(S \ {m})

\* str.upper() on the database names the model uses
Upper(name) ==
    CASE name \in {"PubChem", "pubchem", "PUBCHEM"} -> "PUBCHEM"
      [] name \in {"hmdb", "HMDB"} -> "HMDB"
      [] OTHER -> name

\* ------------------------------------------- _retrieve_annotation (495-533)

\* every level beyond the lineage repeats the last class of the lineage
LevelName_Repeats(lineage, lineage_len, k) ==
    IF lineage_len > k THEN lineage[k + 1].name
    ELSE IF lineage_len > 0 THEN lineage[lineage_len].name ELSE ""

\* ClassyFireLevel<k+1> (526-531): the name at position k of the lineage,
\* the empty string when the lineage is not that long.
LevelName(lineage, lineage_len, k) ==
    IF lineage_len > k THEN lineage[k + 1].name ELSE ""

\* The row of the top-annotation table.  A lineage that is None counts as
\* the empty list: both are falsy at line 524.
RetrieveAnnotation(ext_id, feat) ==
    LET top == feat.top_annotations
        has_structure == top.structure_annotation # None
        has_class == top.compound_class_annotation # None
        lineage == IF has_class
                     THEN top.compound_class_annotation.classy_fire_lineage
                     ELSE << >>
        lineage_len == Len(lineage)
    IN [ ExternalID |-> ext_id,
         FeatureName |-> feat.name,
         Formula |-> top.formula_annotation.molecular_formula,
         FormulaScore |-> top.formula_annotation.sirius_score,
         CSIFingerIDName |->
             IF has_structure THEN top.structure_annotation.structure_name ELSE "",
         CSIFingerIDInChIKey |->
             IF has_structure THEN top.structure_annotation.inchi_key ELSE "",
         CSIFingerIDScore |->
             IF has_structure THEN top.structure_annotation.csi_score ELSE "",
         CSIFingerIDTanimotoSimilarity |->
             IF has_structure THEN top.structure_annotation.tanimoto_similarity ELSE "",
         CSIFingerIDConfidenceExact |->
             IF has_structure THEN top.confidence_exact_match ELSE "",
         CSIFingerIDConfidenceApprox |->
             IF has_structure THEN top.confidence_approx_match ELSE "",
         ClassyFireLevel1 |-> LevelName(lineage, lineage_len, 0),
         ClassyFireLevel2 |-> LevelName(lineage, lineage_len, 1),
         ClassyFireLevel3 |-> LevelName(lineage, lineage_len, 2),
         ClassyFireLevel4 |-> LevelName(lineage, lineage_len, 3),
         ClassyFireLevel5 |-> LevelName(lineage, lineage_len, 4),
         ClassyFireLevel6 |-> LevelName(lineage, lineage_len, 5) ]

\* top_annotation['topFingerprint'] = ... (557): the row gains a key
WithFingerprint(row, fp) ==
    [ k \in DOMAIN row \cup {"topFingerprint"} |->
        IF k = "topFingerprint" THEN fp ELSE row[k] ]

\* --------------------------------------------- _retrieve_formulas (536-591)

\* The value _retrieve_formulas returns: the pair (None, None) for an empty
\* candidate list, otherwise the table of all candidates.
RetrieveFormulas(ext_id, candidates) ==
    IF candidates = << >>
      THEN NoneTuple
      ELSE Table([ i \in 0..(Len(candidates) - 1) |->
                     [ ExternalID |-> ext_id,
                       SiriusFormulaID |-> candidates[i + 1].formulaId,
                       Rank |-> candidates[i + 1].rank ] ])

\* ---------------------------------------------- _retrieve_classes (594-653)

\* the counter is left as it was after a lineage took its value
TreeIdAfter_Kept(tree_id) == tree_id

\* tree_id[0] += 1 (628)
TreeIdAfter(tree_id) == tree_id + 1

\* The loop of lines 611-651 over the formula candidates: one table per
\* candidate that has compound classes, stamped with the counter, which
\* then advances.  Gives the tables and the counter after the loop.
RECURSIVE ClassTables(_, _, _)
ClassTables(ext_id, candidates, tree_id) ==
    IF candidates = << >>
      THEN [ tables |-> << >>, tree_id |-> tree_id ]
      ELSE LET c == Head(candidates) IN
           IF c.compoundClasses = None
             THEN ClassTables(ext_id, Tail(candidates), tree_id)
             ELSE LET lineage == c.compoundClasses.classyFireLineage
                      t == Table([ i \in 0..(Len(lineage) - 1) |->
                                     [ ExternalID |-> ext_id,
                                       SiriusFormulaID |-> c.formulaId,
                                       TreeID |-> tree_id,
                                       Name |-> lineage[i + 1].name,
                                       LevelIndex |-> lineage[i + 1].levelIndex ] ])
                      rest == ClassTables(ext_id, Tail(candidates), TreeIdAfter(tree_id))
                  IN [ tables |-> << t >> \o rest.tables, tree_id |-> rest.tree_id ]

\* ---------------------------------------------- _retrieve_db_ids (789-804)

\* For one candidate: for each configured database, the id of the first
\* link whose upper-cased name is the upper-cased database name, else None.
DbIds(links, dbs) ==
    [ n \in { Upper(dbs[k]) : k \in 1..Len(dbs) } |->
        LET hits == { i \in 1..Len(links) : Upper(links[i].name) = n }
        IN IF hits = {} THEN None
           ELSE Val(links[CHOOSE i \in hits : \A j \in hits : i <= j].id) ]

\* The loop of line 793 takes each kept row's dbLinks and line 798 iterates
\* it: a candidate listed without dbLinks (None) cannot be iterated, and
\* next() raises TypeError.
LinksMissing(candidates, max_rank) ==
    \E i \in 1..Len(candidates) :
        candidates[i].rank <= max_rank /\ candidates[i].dbLinks = None

\* every configured database column holds NaN
NoIds(dbs) == [ n \in { Upper(dbs[k]) : k \in 1..Len(dbs) } |-> NaN ]

\* ------------------------- _retrieve_structures, _retrieve_denovo (656-760)

\* Lines 672-682 (726-736): rows ranked above max_rank are dropped in place,
\* so the rows kept keep their index labels; the database ids of the rows
\* kept are put in a new frame labelled 0, 1, ...; concat(axis=1) joins the
\* two frames on their labels, filling NaN where a label is in only one.
RankCapped(ext_id, candidates, max_rank, dbs) ==
    LET kept == { i \in 0..(Len(candidates) - 1) : candidates[i + 1].rank <= max_rank }
        order == Sorted(kept)
        db_links == [ j \in 0..(Len(order) - 1) |->
                        DbIds(candidates[order[j + 1] + 1].dbLinks.v, dbs) ]
        index == kept \cup DOMAIN db_links
    IN Table([ l \in index |->
                 [ InChIKey |-> IF l \in kept THEN Val(candidates[l + 1].inchiKey) ELSE NaN,
                   Rank |-> IF l \in kept THEN Val(candidates[l + 1].rank) ELSE NaN,
                   ExternalID |-> IF l \in kept THEN Val(ext_id) ELSE NaN,
                   ids |-> IF l \in DOMAIN db_links THEN db_links[l] ELSE NoIds(dbs) ] ])

\* The value _retrieve_structures / _retrieve_denovo returns once the stage
\* is enabled and the candidates are fetched, none of them without dbLinks.
RetrieveCandidates(ext_id, candidates, max_rank, dbs) ==
    IF candidates = << >> THEN None
    ELSE RankCapped(ext_id, candidates, max_rank, dbs)

\* ------------------------------------------- what the service holds

\* columns ClassyFireLevel1..6 of the annotation row (526-531)
Levels == 6

\* external ids as the service returns them (strings, node.py 171), and
\* astype('Int64') on them (847, 873, 889, 905, 921)
ExtIds == << "1", "2", "3", "4" >>
ToInt(s) == CHOOSE k \in 1..Len(ExtIds) : ExtIds[k] = s

LevelNames == << "kingdom", "superclass", "class", "subclass",
                 "level5", "level6", "level7" >>

\* a ClassyFire lineage of n classes
Lineage(n) == [ i \in 1..n |-> [ name |-> LevelNames[i], levelIndex |-> i - 1 ] ]

\* a formula candidate; n < 0 stands for compoundClasses = None
FormulaCandidate(id, n) ==
    [ formulaId |-> id,
      rank |-> id,
      predictedFingerprint |-> IF id = 1 THEN Val("fp") ELSE None,
      compoundClasses |->
          IF n < 0 THEN None
          ELSE [ kind |-> "classes", classyFireLineage |-> Lineage(n) ] ]

\* database links of the structure candidates, by candidate
Keys == << "A", "B", "C", "D", "E" >>
LinksOf(key) ==
    CASE key = "A" -> << [ name |-> "PubChem", id |-> "pubchem:A" ],
                         [ name |-> "HMDB", id |-> "hmdb:A" ] >>
      [] key = "B" -> << [ name |-> "hmdb", id |-> "hmdb:B" ] >>
      [] key = "C" -> << >>
      [] key = "D" -> << [ name |-> "KEGG", id |-> "kegg:D" ],
                         [ name |-> "pubchem", id |-> "pubchem:D" ] >>
      [] OTHER -> << [ name |-> "PUBCHEM", id |-> "pubchem:E" ] >>

\* structure candidates with the given ranks, in list order; dbLinks is
\* None or Val(list of links)
Candidates(ranks) ==
    [ i \in 1..Len(ranks) |->
        [ inchiKey |-> Keys[i], rank |-> ranks[i], dbLinks |-> Val(LinksOf(Keys[i])) ] ]

FormulaAnnotation == [ kind |-> "formula", formula_id |-> 1,
                       molecular_formula |-> "C6H12O6", sirius_score |-> "25.1" ]
StructureAnnotation == [ kind |-> "structure", structure_name |-> "glucose",
                         inchi_key |-> "A", csi_score |-> "-12.5",
                         tanimoto_similarity |-> "0.8" ]
ClassAnnotation(n) == [ kind |-> "class", classy_fire_lineage |-> Lineage(n) ]

\* an aligned feature as get_aligned_feature and the candidate fetches
\* answer for it
Feature(id, ext, formula, structure, class, fcands, scands, dcands) ==
    [ aligned_feature_id |-> id,
      external_feature_id |-> ext,
      name |-> "feature",
      top_annotations |-> [ formula_annotation |-> formula,
                            structure_annotation |-> structure,
                            compound_class_annotation |-> class,
                            confidence_exact_match |-> "0.6",
                            confidence_approx_match |-> "0.7" ],
      formula_candidates |-> fcands,
      structure_candidates |-> scands,
      denovo_candidates |-> dcands ]

\* The features of the loop-level harvest, by shape:
\*   blank  no formula annotation, nothing predicted
\*   empty  a formula annotation, but no formula candidate is listed
\*   one    one formula candidate with a lineage of 3, two structure
\*          candidates, one de-novo candidate
\*   two    two formula candidates, the first without compound classes
\*   both   two formula candidates with lineages of 1 and 2
Shapes == { "blank", "empty", "one", "two", "both" }
Shaped(id, ext, shape) ==
    CASE shape = "blank" ->
           Feature(id, ext, None, None, None, << >>, << >>, << >>)
      [] shape = "empty" ->
           Feature(id, ext, FormulaAnnotation, None, None, << >>, << >>, << >>)
      [] shape = "one" ->
           Feature(id, ext, FormulaAnnotation, StructureAnnotation, ClassAnnotation(3),
                   << FormulaCandidate(1, 3) >>,
                   Candidates(<< 1, 2 >>), Candidates(<< 1 >>))
      [] shape = "two" ->
           Feature(id, ext, FormulaAnnotation, None, None,
                   << FormulaCandidate(1, -1), FormulaCandidate(2, 2) >>,
                   << >>, << >>)
      [] OTHER ->
           Feature(id, ext, FormulaAnnotation, None, ClassAnnotation(1),
                   << FormulaCandidate(1, 1), FormulaCandidate(2, 2) >>,
                   << >>, << >>)

\* aligned feature ids: whatever the service assigned, here by list position
FeatureId(k) == 100 + k

\* lists of at most MaxFeatures features, external ids in any order
FeatureLists ==
    UNION { { [ k \in 1..n |-> Shaped(FeatureId(k), ExtIds[p[k]], sh[k]) ] :
              p \in Permutations(1..n), sh \in [1..n -> Shapes] } : n \in 0..MaxFeatures }

\* lists of at most MaxCands distinct ranks, in any order
RECURSIVE RankLists(_)
RankLists(n) ==
    IF n = 0 THEN { << >> }
    ELSE RankLists(n - 1) \cup
         { Append(l, r) : l \in { x \in RankLists(n - 1) : Len(x) = n - 1 },
                          r \in 1..MaxRank }

DistinctRankLists ==
    { l \in RankLists(MaxCands) : \A i, j \in 1..Len(l) : l[i] = l[j] => i = j }

\* The run at the call of retrieve_results (node.py 61): session open,
\* project created, job DONE.  calls and log record the harvest only.
AtRetrieve ==
    /\ pc = "retrieve"
    /\ exc = "none"
    /\ session = "open"
    /\ api = "attached"
    /\ svc = [ alive |-> TRUE, loggedIn |-> TRUE, projects |-> {RunProject}, job |-> "DONE" ]
    /\ project = RunProject
    /\ job = JobSpec(cfg)
    /\ success = "True"
    /\ state = "DONE"
    /\ polls = 1
    /\ sleeps = 0
    /\ clock = 0
    /\ results = "unbound"
    /\ exported = FALSE
    /\ status = "running"
    /\ calls = << >>
    /\ log = << >>
    /\ feature_ids = << >>
    /\ fi = 0
    /\ annotations = << >>
    /\ formulas = << >>
    /\ classes = << >>
    /\ structures = << >>
    /\ denovo = << >>
    /\ class_tree_id = 0
    /\ fingerprints = "unbound"
    /\ NoLoad
    /\ NoScope

\* Harvest over any list of features of the five shapes, any stage toggles,
\* fingerprints saved or not; the rank caps drop nothing.
InitHarvest ==
    /\ cfg \in [ account_username : {"user"},
                 account_password : {"secret"},
                 structure_db_search_enabled : BOOLEAN,
                 canopus_enabled : BOOLEAN,
                 ms_novelist_enabled : BOOLEAN,
                 fingerprint_prediction_save : BOOLEAN,
                 structure_db_search_dbs : { << "PUBCHEM", "HMDB" >> },
                 structure_db_search_candidates : {MaxRank},
                 ms_novelist_candidates : {MaxRank} ]
    /\ features \in FeatureLists
    /\ AtRetrieve

\* Harvest of one annotated feature with every stage enabled: any top
\* structure annotation, any lineage, any list of ranks, any rank cap (the
\* de-novo cap running against the structure cap).
InitRows ==
    /\ cfg \in [ account_username : {"user"},
                 account_password : {"secret"},
                 structure_db_search_enabled : {TRUE},
                 canopus_enabled : {TRUE},
                 ms_novelist_enabled : {TRUE},
                 fingerprint_prediction_save : {FALSE},
                 structure_db_search_dbs : { << "PUBCHEM", "HMDB" >> },
                 structure_db_search_candidates : 1..MaxRank,
                 ms_novelist_candidates : 1..MaxRank ]
    /\ cfg.ms_novelist_candidates = MaxRank + 1 - cfg.structure_db_search_candidates
    /\ \E structure \in {None, StructureAnnotation},
          class \in {None} \cup { ClassAnnotation(n) : n \in 0..(Levels + 1) },
          ranks \in DistinctRankLists :
          features = << Feature(FeatureId(1), ExtIds[1], FormulaAnnotation,
                                structure, class, << FormulaCandidate(1, 3) >>,
                                Candidates(ranks), Candidates(ranks)) >>
    /\ AtRetrieve

\* What a candidate may carry as dbLinks: nothing at all, an empty list,
\* links to databases not configured, links whose names differ in case
\* from the configured names, two links to the same database.
LinkLists ==
    { None,
      Val(<< >>),
      Val(<< [ name |-> "KEGG", id |-> "kegg:1" ] >>),
      Val(<< [ name |-> "PubChem", id |-> "pubchem:1" ],
             [ name |-> "HMDB", id |-> "hmdb:1" ] >>),
      Val(<< [ name |-> "hmdb", id |-> "hmdb:2" ], [ name |-> "KEGG", id |-> "kegg:2" ] >>),
      Val(<< [ name |-> "pubchem", id |-> "pubchem:2" ],
             [ name |-> "PUBCHEM", id |-> "pubchem:3" ] >>) }

\* candidates of ranks 1, 2, ... with the given dbLinks
LinkedCandidates(links) ==
    [ i \in 1..Len(links) |-> [ inchiKey |-> Keys[i], rank |-> i, dbLinks |-> links[i] ] ]

\* Harvest of one annotated feature with the structure and de-novo stages
\* enabled, the databases configured in mixed case, no rank above the cap:
\* any dbLinks on each of up to MaxCands candidates.
InitLinks ==
    /\ cfg \in [ account_username : {"user"},
                 account_password : {"secret"},
                 structure_db_search_enabled : {TRUE},
                 canopus_enabled : {FALSE},
                 ms_novelist_enabled : {TRUE},
                 fingerprint_prediction_save : {FALSE},
                 structure_db_search_dbs : { << "pubchem", "HMDB" >> },
                 structure_db_search_candidates : {MaxCands},
                 ms_novelist_candidates : {MaxCands} ]
    /\ \E n \in 1..MaxCands : \E links \in [1..n -> LinkLists] :
          features = << Feature(FeatureId(1), ExtIds[1], FormulaAnnotation,
                                StructureAnnotation, None, << FormulaCandidate(1, 3) >>,
                                LinkedCandidates(links), LinkedCandidates(links)) >>
    /\ AtRetrieve

\* ------------------------------------------- retrieve_results (419-492)

\* what no step of retrieve_results touches
rvars == <<session, api, cfg, svc, project, job, success, state, polls,
           sleeps, clock, exported, status, features, data, loaded, svars>>

\* the loop visits the listed ids from the last to the first
FeatIdAt_Reversed(ids, k) == ids[Len(ids) + 1 - k]

\* for feat_id in feature_ids (446): the id visited k-th
FeatIdAt(ids, k) == ids[k]

\* every stage is fetched whatever the job was configured with
StageEnabled_All(j) == [ classes |-> TRUE, structures |-> TRUE, denovo |-> TRUE ]

\* The checks of lines 598, 660 and 714 on the job specification.
StageEnabled(j) ==
    [ classes |-> j.canopus_enabled,
      structures |-> j.structure_db_search_enabled,
      denovo |-> j.ms_novelist_enabled ]

\* the candidate fetches follow whether or not the feature is annotated
AfterFeature_Fetches(skip) == "h_formulas"

\* Lines 450-451: continue with the next feature when the feature has no
\* formula annotation, go on to its candidates otherwise.
AfterFeature(skip) == IF skip THEN "h_feature" ELSE "h_formulas"

\* the feature the loop is at: its id, what the service holds for it, and
\* the local ext_id (454)
FeatId == FeatIdAt(feature_ids, fi)
TheFeature == features[CHOOSE k \in 1..Len(features) : features[k].aligned_feature_id = FeatId]
ExtId == TheFeature.external_feature_id

\* The loop moves to its next iteration, or past the loop after the last.
NextIteration ==
    /\ fi' = fi + 1
    /\ pc' = IF fi + 1 > Len(feature_ids) THEN "h_fingerprints" ELSE "h_feature"

\* Lines 422-443: the buffers and the tree-id counter are created, then
\* the features are listed.
HarvestBegin ==
    /\ pc = "retrieve"
    /\ log' = Append(log, Entry("TEMP", "Retrieving SIRIUS results..."))
    /\ annotations' = << >>
    /\ formulas' = << >>
    /\ structures' = << >>
    /\ classes' = << >>
    /\ denovo' = << >>
    /\ class_tree_id' = 1
    /\ \E r \in {"ok", "raise"} :
        /\ calls' = Append(calls, Call("get_aligned_features", r))
        /\ IF r = "ok"
             THEN /\ feature_ids' = [ k \in 1..Len(features) |-> features[k].aligned_feature_id ]
                  /\ fi' = 1
                  /\ pc' = IF Len(features) = 0 THEN "h_fingerprints" ELSE "h_feature"
                  /\ exc' = exc
             ELSE /\ Raise("RemoteError")
                  /\ UNCHANGED <<feature_ids, fi>>
    /\ UNCHANGED <<rvars, results, fingerprints>>

\* Lines 449-461: fetch the feature; skip it without a formula annotation,
\* otherwise append its top-annotation row.
GetFeature ==
    /\ pc = "h_feature"
    /\ \E r \in {"ok", "raise"} :
        /\ calls' = Append(calls, FeatCall("get_aligned_feature", FeatId, r))
        /\ IF r = "raise"
             THEN /\ Raise("RemoteError")
                  /\ UNCHANGED <<fi, annotations>>
             ELSE /\ exc' = exc
                  /\ IF TheFeature.top_annotations.formula_annotation = None
                       THEN /\ annotations' = annotations
                            /\ IF AfterFeature(TRUE) = "h_feature"
                                 THEN NextIteration
                                 ELSE pc' = AfterFeature(TRUE) /\ fi' = fi
                       ELSE /\ annotations' = Append(annotations, RetrieveAnnotation(ExtId, TheFeature))
                            /\ pc' = AfterFeature(FALSE)
                            /\ fi' = fi
    /\ UNCHANGED <<rvars, results, log, feature_ids, formulas, classes,
                   structures, denovo, class_tree_id, fingerprints>>

\* Lines 464-466 with _retrieve_formulas: whatever is returned and is not
\* None is appended; with fingerprints saved, the annotation row just
\* appended gains the fingerprint of the top formula (555-557), .item()
\* raising unless exactly one candidate has the top formula id.
GetFormulas ==
    /\ pc = "h_formulas"
    /\ \E r \in {"ok", "raise"} :
        /\ calls' = Append(calls, FeatCall("get_formula_candidates", FeatId, r))
        /\ IF r = "raise"
             THEN /\ Raise("RemoteError")
                  /\ UNCHANGED <<annotations, formulas>>
             ELSE LET candidates == TheFeature.formula_candidates
                      top_formula_id == TheFeature.top_annotations.formula_annotation.formula_id
                      table == RetrieveFormulas(ExtId, candidates)
                      hits == { i \in 1..Len(candidates) : candidates[i].formulaId = top_formula_id }
                      top == candidates[CHOOSE i \in hits : TRUE].predictedFingerprint
                  IN IF cfg.fingerprint_prediction_save /\ candidates # << >>
                          /\ Cardinality(hits) # 1
                       THEN /\ Raise("ValueError")
                            /\ UNCHANGED <<annotations, formulas>>
                       ELSE /\ annotations' =
                                 IF cfg.fingerprint_prediction_save /\ candidates # << >>
                                   THEN [ annotations EXCEPT ![Len(annotations)] =
                                            WithFingerprint(@, IF top = None THEN Val("[]") ELSE top) ]
                                   ELSE annotations
                            /\ formulas' = IF table # None THEN Append(formulas, table)
                                           ELSE formulas
                            /\ pc' = "h_classes"
                            /\ exc' = exc
    /\ UNCHANGED <<rvars, results, log, feature_ids, fi, classes, structures,
                   denovo, class_tree_id, fingerprints>>

\* Lines 469-471 with _retrieve_classes.
GetClasses ==
    /\ pc = "h_classes"
    /\ IF ~StageEnabled(job).classes
         THEN /\ pc' = "h_structures"
              /\ UNCHANGED <<exc, calls, classes, class_tree_id>>
         ELSE \E r \in {"ok", "raise"} :
              /\ calls' = Append(calls, FeatCall("get_formula_candidates(compoundClasses)", FeatId, r))
              /\ IF r = "raise"
                   THEN /\ Raise("RemoteError")
                        /\ UNCHANGED <<classes, class_tree_id>>
                   ELSE LET got == ClassTables(ExtId, TheFeature.formula_candidates, class_tree_id)
                        IN /\ classes' = classes \o got.tables
                           /\ class_tree_id' = got.tree_id
                           /\ pc' = "h_structures"
                           /\ exc' = exc
    /\ UNCHANGED <<rvars, results, log, feature_ids, fi, annotations, formulas,
                   structures, denovo, fingerprints>>

\* Lines 474-476 with _retrieve_structures.
GetStructures ==
    /\ pc = "h_structures"
    /\ IF ~StageEnabled(job).structures
         THEN /\ pc' = "h_denovo"
              /\ UNCHANGED <<exc, calls, structures>>
         ELSE \E r \in {"ok", "raise"} :
              /\ calls' = Append(calls, FeatCall("get_structure_candidates", FeatId, r))
              /\ IF r = "raise"
                   THEN /\ Raise("RemoteError")
                        /\ UNCHANGED structures
                   ELSE IF /\ TheFeature.structure_candidates # << >>
                           /\ LinksMissing(TheFeature.structure_candidates,
                                           cfg.structure_db_search_candidates)
                   THEN /\ Raise("TypeError")
                        /\ UNCHANGED structures
                   ELSE LET table == RetrieveCandidates(ExtId, TheFeature.structure_candidates,
                                                        cfg.structure_db_search_candidates,
                                                        cfg.structure_db_search_dbs)
                        IN /\ structures' = IF table # None THEN Append(structures, table)
                                            ELSE structures
                           /\ pc' = "h_denovo"
                           /\ exc' = exc
    /\ UNCHANGED <<rvars, results, log, feature_ids, fi, annotations, formulas,
                   classes, denovo, class_tree_id, fingerprints>>

\* Lines 479-481 with _retrieve_denovo; the iteration ends here.
GetDenovo ==
    /\ pc = "h_denovo"
    /\ IF ~StageEnabled(job).denovo
         THEN /\ NextIteration
              /\ UNCHANGED <<exc, calls, denovo>>
         ELSE \E r \in {"ok", "raise"} :
              /\ calls' = Append(calls, FeatCall("get_de_novo_structure_candidates", FeatId, r))
              /\ IF r = "raise"
                   THEN /\ Raise("RemoteError")
                        /\ UNCHANGED <<denovo, fi>>
                   ELSE IF /\ TheFeature.denovo_candidates # << >>
                           /\ LinksMissing(TheFeature.denovo_candidates,
                                           cfg.ms_novelist_candidates)
                   THEN /\ Raise("TypeError")
                        /\ UNCHANGED <<denovo, fi>>
                   ELSE LET table == RetrieveCandidates(ExtId, TheFeature.denovo_candidates,
                                                        cfg.ms_novelist_candidates,
                                                        cfg.structure_db_search_dbs)
                        IN /\ denovo' = IF table # None THEN Append(denovo, table)
                                        ELSE denovo
                           /\ NextIteration
                           /\ exc' = exc
    /\ UNCHANGED <<rvars, results, log, feature_ids, annotations, formulas,
                   classes, structures, class_tree_id, fingerprints>>

\* Lines 484-486 with _retrieve_fingerprints (763-786).  With fingerprints
\* saved the definitions are fetched and the predictions are read from the
\* annotation rows: the columns ExternalID and topFingerprint must exist
\* (KeyError otherwise); a row that lacks topFingerprint reads as NaN, and
\* a frame built from such a mix may or may not be accepted by pandas.
GetFingerprints ==
    /\ pc = "h_fingerprints"
    /\ IF ~cfg.fingerprint_prediction_save
         THEN /\ fingerprints' = [ predictions |-> None, definitions |-> None ]
              /\ pc' = "h_finalize"
              /\ UNCHANGED <<exc, calls>>
         ELSE \E r \in {"ok", "raise"}, mixed \in {"ok", "raise"} :
              LET has == { i \in 1..Len(annotations) : "topFingerprint" \in DOMAIN annotations[i] }
                  full == has = 1..Len(annotations)
              IN
              /\ calls' = Append(calls, Call("get_finger_id_data", r))
              /\ r = "raise" => mixed = "ok"
              /\ (r = "ok" /\ (has = {} \/ full)) => mixed = "ok"
              /\ CASE r = "raise" ->
                        Raise("RemoteError") /\ fingerprints' = fingerprints
                   [] r = "ok" /\ has = {} ->
                        Raise("KeyError") /\ fingerprints' = fingerprints
                   [] r = "ok" /\ has # {} /\ mixed = "raise" ->
                        Raise("ValueError") /\ fingerprints' = fingerprints
                   [] OTHER ->
                        /\ fingerprints' =
                             [ predictions |->
                                 Table([ e \in { ToInt(annotations[i].ExternalID) : i \in 1..Len(annotations) } |->
                                   LET i == CHOOSE k \in 1..Len(annotations) :
                                                ToInt(annotations[k].ExternalID) = e
                                   IN [ SiriusFeatureName |-> annotations[i].FeatureName,
                                        fingerprint |-> IF i \in has
                                                          THEN annotations[i].topFingerprint
                                                          ELSE NaN ] ]),
                               definitions |-> Table(<< >>) ]
                        /\ pc' = "h_finalize"
                        /\ exc' = exc
    /\ UNCHANGED <<rvars, results, log, feature_ids, fi, annotations, formulas,
                   classes, structures, denovo, class_tree_id>>

\* ------------------------------------------------ finalizers (807-924)

\* the rows of a table in the order of their labels
RowsOf(t) ==
    LET labels == Sorted(DOMAIN t.rows)
    IN [ j \in 1..Len(labels) |-> t.rows[labels[j]] ]

\* pandas.concat(tables, ignore_index=True): the rows of all tables in
\* order, labelled anew
RECURSIVE AllRows(_)
AllRows(tables) ==
    IF Len(tables) = 0 THEN << >>
    ELSE RowsOf(Head(tables)) \o AllRows(Tail(tables))

Concat(tables) ==
    LET rows == AllRows(tables)
    IN Table([ l \in 0..(Len(rows) - 1) |-> rows[l + 1] ])

\* the list holds something pandas.concat rejects
Rejected(tables) == \E i \in 1..Len(tables) : tables[i].kind # "table"

\* astype('Int64') on the ExternalID column of a concatenated table
\* (873, 889); the structure tables hold it as a value or NaN (905, 921)
IntExternalID(t) ==
    Table([ l \in DOMAIN t.rows |->
              [ t.rows[l] EXCEPT !.ExternalID = ToInt(@) ] ])
IntExternalIDOrNA(t) ==
    Table([ l \in DOMAIN t.rows |->
              [ t.rows[l] EXCEPT !.ExternalID =
                  IF @ = NaN THEN NaN ELSE Val(ToInt(@.v)) ] ])

\* pandas.to_numeric(errors='coerce') (848-851): the number, NaN for the
\* empty string
ToNumeric(v) == IF v = "" THEN NaN ELSE Val(v)

\* _finalize_annotations (838-860): None for no row; else one row per
\* annotation, ExternalID as integer, the four score columns numeric,
\* topFingerprint removed
FinalizeAnnotations(rows) ==
    IF Len(rows) = 0 THEN None
    ELSE Table([ l \in 0..(Len(rows) - 1) |->
                   [ k \in DOMAIN rows[l + 1] \ {"topFingerprint"} |->
                       IF k = "ExternalID" THEN ToInt(rows[l + 1][k])
                       ELSE IF k \in { "CSIFingerIDScore", "CSIFingerIDTanimotoSimilarity",
                                       "CSIFingerIDConfidenceExact",
                                       "CSIFingerIDConfidenceApprox" }
                              THEN ToNumeric(rows[l + 1][k])
                       ELSE rows[l + 1][k] ] ])

\* _finalize_formulas, _finalize_classes (863-892)
FinalizeTables(tables) ==
    IF Len(tables) = 0 THEN None ELSE IntExternalID(Concat(tables))

\* _finalize_structures, _finalize_denovo (895-924)
FinalizeCandidates(tables) ==
    IF Len(tables) = 0 THEN None ELSE IntExternalIDOrNA(Concat(tables))

\* Lines 489-492 with _finalize_results: pandas.concat raises TypeError on
\* a list that holds anything but frames.
FinalizeResults ==
    /\ pc = "h_finalize"
    /\ log' = Append(log, Entry("TEMP", "Finalizing SIRIUS results..."))
    /\ IF Rejected(formulas)
         THEN /\ Raise("TypeError")
              /\ results' = results
         ELSE /\ results' =
                   [ SiriusTopAnnotations |-> FinalizeAnnotations(annotations),
                     SiriusFormulas |-> FinalizeTables(formulas),
                     SiriusClasses |-> FinalizeTables(classes),
                     SiriusStructures |-> FinalizeCandidates(structures),
                     SiriusDeNovoStructures |-> FinalizeCandidates(denovo),
                     SiriusFingerprints |-> fingerprints.predictions,
                     SiriusFingerprintDefinitions |-> fingerprints.definitions ]
              /\ pc' = "finally"
              /\ exc' = exc
    /\ UNCHANGED <<rvars, calls, feature_ids, fi, annotations, formulas,
                   classes, structures, denovo, class_tree_id, fingerprints>>

NextHarvest ==
    \/ HarvestBegin \/ GetFeature \/ GetFormulas \/ GetClasses
    \/ GetStructures \/ GetDenovo \/ GetFingerprints \/ FinalizeResults

\* the harvest over lists of features
SpecHarvest == InitHarvest /\ [][NextHarvest]_vars

\* the harvest of one feature, over what the service may hold for it
SpecRows == InitRows /\ [][NextHarvest]_vars

\* the harvest of one feature, over the database links of its candidates
SpecLinks == InitLinks /\ [][NextHarvest]_vars

\* ======================================================= _load_features
\* The conversion of the input features (node.py 149-209) with the adduct
\* normalizer (212-227), one action per feature.  Strings the normalizer
\* inspects are sequences of characters; masses are integers in units of
\* 1e-8 Da.  Fields copied without change (names, scan numbers, retention
\* times) are left out.

\* ------------------------------------------------------------------ bounds

\* entries of a Masses or Intensities array
MaxPeaks == 2

\* --------------------------------------------------------------- constants

\* 1.00727663 (219, 223)
ProtonMass == 100727663

\* invalid_adducts without the solvent adducts
InvalidAdducts_NoSolvents ==
    << << "2", "M" >>,
       << "+", "2" >>,
       << "+", "3" >>,
       << "-", "2" >>,
       << "-", "3" >>,
       << "-", "e" >>,
       << "+", "e" >> >>

\* invalid_adducts (215)
InvalidAdducts ==
    << << "2", "M" >>,
       << "+", "2" >>,
       << "+", "3" >>,
       << "-", "2" >>,
       << "-", "3" >>,
       << "M", "e", "O", "H" >>,
       << "A", "C", "N" >>,
       << "-", "e" >>,
       << "+", "e" >> >>

\* d in adduct (216): token occurs in s as a substring
Contains(s, token) ==
    \E i \in 1..(Len(s) - Len(token) + 1) : SubSeq(s, i, i + Len(token) - 1) = token

\* _normalize_adduct(mz, mw, z, adduct): the replacement of lines 216-225,
\* then the return of line 227, which drops the last character of whatever
\* adduct is returned.
NormalizeAdduct(mz, mw, z, adduct) ==
    LET invalid == \E k \in 1..Len(InvalidAdducts) : Contains(adduct, InvalidAdducts[k])
        mz2 == IF ~invalid THEN mz
               ELSE IF z < 0 THEN mw - ProtonMass ELSE mw + ProtonMass
        adduct2 == IF ~invalid THEN adduct
                   ELSE IF z < 0 THEN << "[", "M", "-", "H", "]", "-", "1" >>
                   ELSE << "[", "M", "+", "H", "]", "+", "1" >>
        z2 == IF ~invalid THEN z ELSE IF z < 0 THEN -1 ELSE 1
    IN [ mz |-> mz2, z |-> z2,
         adduct |-> SubSeq(adduct2, 1, Len(adduct2) - 1) ]

\* zip(masses, intensities) (186, 202): pairs up to the shorter array
Zip(masses, intensities) ==
    LET n == IF Len(masses) < Len(intensities) THEN Len(masses) ELSE Len(intensities)
    IN [ i \in 1..n |-> [ mz |-> masses[i], intensity |-> intensities[i] ] ]

\* feat_input (171-204) for one input feature
FeatInput(feat) ==
    LET n == NormalizeAdduct(feat.Mass, feat.MW, feat.Charge, feat.Adduct)
    IN [ externalFeatureId |-> ExtIds[feat.ExternalID],
         ionMass |-> n.mz,
         charge |-> n.z,
         detectedAdducts |-> << n.adduct >>,
         mergedMs1 |-> [ peaks |-> Zip(feat.MS1Spectrum.Masses,
                                       feat.MS1Spectrum.Intensities) ],
         ms2Spectra |-> [ k \in 1..Len(feat.MS2Spectra) |->
                            [ peaks |-> Zip(feat.MS2Spectra[k].Masses,
                                            feat.MS2Spectra[k].Intensities) ] ] ]

\* --------------------------------------------------------- input features

\* adducts as the input file spells them
InputAdducts ==
    { << "[", "M", "+", "H", "]", "+", "1" >>,
      << "[", "M", "-", "H", "]", "-", "1" >>,
      << "[", "M", "+", "N", "a", "]", "+", "1" >>,
      << "[", "M", "+", "N", "H", "4", "]", "+", "1" >>,
      << "[", "M", "+", "H", "-", "H", "2", "O", "]", "+", "1" >>,
      << "[", "2", "M", "+", "H", "]", "+", "1" >>,
      << "[", "2", "M", "-", "H", "]", "-", "1" >>,
      << "[", "M", "+", "2", "H", "]", "+", "2" >>,
      << "[", "M", "-", "2", "H", "]", "-", "2" >>,
      << "[", "M", "+", "3", "H", "]", "+", "3" >>,
      << "[", "M", "-", "3", "H", "]", "-", "3" >>,
      << "[", "M", "+", "H", "+", "M", "e", "O", "H", "]", "+", "1" >>,
      << "[", "M", "+", "A", "C", "N", "+", "H", "]", "+", "1" >>,
      << "[", "M", "-", "e", "]", "+", "1" >>,
      << "[", "M", "+", "e", "]", "-", "1" >> }

\* arrays of at most MaxPeaks entries; the entry at position i is base + i
Arrays(base) == { [ i \in 1..n |-> base + i ] : n \in 0..MaxPeaks }

Spectra == [ Masses : Arrays(100), Intensities : Arrays(1000) ]

InputFeatures ==
    [ ExternalID : {1},
      Mass : {1200000000},
      MW : {1000000000, 1500000000},
      Charge : {-2, -1, 0, 1, 2},
      Adduct : InputAdducts,
      MS1Spectrum : Spectra,
      MS2Spectra : { << >> } \cup { << s >> : s \in Spectra } ]

\* The run at the call of _load_features (node.py 51): session open,
\* project created; the input file holds no or one feature.
InitLoad ==
    /\ pc = "load_features"
    /\ exc = "none"
    /\ session = "open"
    /\ api = "attached"
    /\ cfg = [ account_username |-> "user", account_password |-> "secret",
               structure_db_search_enabled |-> TRUE, canopus_enabled |-> TRUE,
               ms_novelist_enabled |-> TRUE ]
    /\ svc = [ alive |-> TRUE, loggedIn |-> TRUE, projects |-> {RunProject}, job |-> "none" ]
    /\ project = RunProject
    /\ job = NoJob
    /\ success = "unset"
    /\ state = "none"
    /\ polls = 0
    /\ sleeps = 0
    /\ clock = 0
    /\ results = "unbound"
    /\ exported = FALSE
    /\ status = "running"
    /\ calls = << >>
    /\ log = << >>
    /\ NoHarvest
    /\ data \in { << >> } \cup { << f >> : f \in InputFeatures }
    /\ loaded = "unbound"
    /\ NoScope

\* what no step of _load_features touches
kvars == <<exc, session, api, cfg, svc, project, job, success, state, polls,
           sleeps, clock, results, exported, status, calls, data, svars>>

\* Lines 152-160: the file is read, the list of features is created.
LoadBegin ==
    /\ pc = "load_features"
    /\ log' = Append(log, Entry("TEMP", "Loading SIRIUS features..."))
    /\ loaded' = << >>
    /\ pc' = "l_feature"
    /\ UNCHANGED <<kvars, hvars>>

\* One iteration of the loop of line 161: the next input feature is
\* converted and appended.  Nothing in the iteration compares the lengths
\* of Masses and Intensities.
ConvertFeature ==
    /\ pc = "l_feature"
    /\ Len(loaded) < Len(data)
    /\ loaded' = Append(loaded, FeatInput(data[Len(loaded) + 1]))
    /\ UNCHANGED <<pc, log, kvars, hvars>>

\* return features (209): the run goes on to set_features
LoadReturn ==
    /\ pc = "l_feature"
    /\ Len(loaded) = Len(data)
    /\ pc' = "set_features"
    /\ UNCHANGED <<loaded, log, kvars, hvars>>

NextLoad == LoadBegin \/ ConvertFeature \/ LoadReturn

SpecLoad == InitLoad /\ [][NextLoad]_vars

\* ============================================================== Silencer
\* One scope `with Silencer(stdout, stderr):` (silencer.py), as __enter__
\* opens it around connect(), start() and login() (sirius.py 86) and
\* __exit__ around shutdown() (106).  A descriptor table maps each open
\* descriptor to the stream (open file description) it refers to.

\* os.open and os.dup return the lowest descriptor not in use
Lowest(table) ==
    CHOOSE fd \in 0..Cardinality(DOMAIN table) :
        /\ fd \notin DOMAIN table
        /\ \A lower \in 0..(fd - 1) : lower \in DOMAIN table

\* table with descriptor fd referring to stream
Bound(table, fd, stream) ==
    [ f \in DOMAIN table \cup {fd} |-> IF f = fd THEN stream ELSE table[f] ]

\* os.dup2(old, new): new refers to the stream of old
Dup2(table, old, new) == Bound(table, new, table[old])

\* os.close(fd)
Close(table, fd) == [ f \in DOMAIN table \ {fd} |-> table[f] ]

\* __enter__ redirecting whatever the flag says
Redirected_Always(flag, table, null, fd) == Dup2(table, null, fd)

\* __enter__ (27-31): descriptor fd is redirected to the null device only
\* when the flag of its stream is set
Redirected(flag, table, null, fd) ==
    IF flag THEN Dup2(table, null, fd) ELSE table

\* __exit__ (37-38): descriptor fd is set back to the saved duplicate,
\* whatever the flag
RestoredFrom(table, save, fd) == Dup2(table, save, fd)

\* streams of the descriptors a process may hold besides 1 and 2
Streams == << "stdin", "stdout", "stderr", "file3", "file4" >>

\* the scope of __enter__ (session being acquired) or of __exit__
\* (session open), in a process that holds descriptors 1 and 2, any of 0,
\* 3 and 4, and whose descriptor 2 may refer to the stream of descriptor 1
InitSilencer ==
    /\ pc = "s_init"
    /\ exc = "none"
    /\ session \in {"acquiring", "open"}
    /\ api = (IF session = "acquiring" THEN "none" ELSE "attached")
    /\ cfg = [ account_username |-> "user", account_password |-> "secret",
               structure_db_search_enabled |-> TRUE, canopus_enabled |-> TRUE,
               ms_novelist_enabled |-> TRUE ]
    /\ svc = [ alive |-> TRUE, loggedIn |-> session = "open", projects |-> {},
               job |-> "none" ]
    /\ project = "none"
    /\ job = NoJob
    /\ success = "unset"
    /\ state = "none"
    /\ polls = 0
    /\ sleeps = 0
    /\ clock = 0
    /\ results = "unbound"
    /\ exported = FALSE
    /\ status = "running"
    /\ calls = << >>
    /\ log = << >>
    /\ NoHarvest
    /\ NoLoad
    /\ \E others \in SUBSET {0, 3, 4}, merged \in BOOLEAN :
          fds = [ fd \in others \cup {1, 2} |->
                    IF fd = 2 /\ merged THEN "stdout" ELSE Streams[fd + 1] ]
    /\ before = fds
    /\ silencer = NoSilencer
    /\ closed = << >>
    /\ written = << >>

\* what no step of the scope touches
ovars == <<session, api, cfg, svc, project, job, success, state, polls,
           sleeps, clock, results, exported, status, calls, log, hvars, lvars,
           before>>

\* Silencer.__init__ (12-21): the null device is opened and the descriptor
\* duplicated, for stdout and then for stderr.
SilencerInit ==
    /\ pc = "s_init"
    /\ \E stdout, stderr \in BOOLEAN :
        LET stdout_null == Lowest(fds)
            t1 == Bound(fds, stdout_null, "null1")
            stdout_save == Lowest(t1)
            t2 == Dup2(t1, 1, stdout_save)
            stderr_null == Lowest(t2)
            t3 == Bound(t2, stderr_null, "null2")
            stderr_save == Lowest(t3)
            t4 == Dup2(t3, 2, stderr_save)
        IN /\ silencer' = [ built |-> TRUE,
                            _stdout |-> stdout,
                            _stdout_null |-> stdout_null,
                            _stdout_save |-> stdout_save,
                            _stderr |-> stderr,
                            _stderr_null |-> stderr_null,
                            _stderr_save |-> stderr_save ]
           /\ fds' = t4
    /\ pc' = "s_enter"
    /\ UNCHANGED <<exc, closed, written, ovars>>

\* Silencer.__enter__ (24-31)
SilencerEnter ==
    /\ pc = "s_enter"
    /\ fds' = Redirected(silencer._stderr,
                         Redirected(silencer._stdout, fds, silencer._stdout_null, 1),
                         silencer._stderr_null, 2)
    /\ pc' = "s_body"
    /\ UNCHANGED <<exc, silencer, closed, written, ovars>>

\* The body of the with statement: connect(), start() and login() in
\* __enter__ (89-97), shutdown() in __exit__ (107).  Each writes its log
\* lines to descriptor 1 (sirius.py 122, node.py 31); the service client
\* may write diagnostics to descriptor 2; the body returns or raises.
SilencerBody ==
    /\ pc = "s_body"
    /\ \E noisy \in BOOLEAN :
        written' = written \o << [ fd |-> 1, stream |-> fds[1] ] >>
                           \o (IF noisy THEN << [ fd |-> 2, stream |-> fds[2] ] >>
                               ELSE << >>)
    /\ \E e \in {"none", "RemoteError", "Unable to login to SIRIUS account!"} :
        /\ e = "Unable to login to SIRIUS account!" => session = "acquiring"
        /\ exc' = e
    /\ pc' = "s_exit"
    /\ UNCHANGED <<fds, silencer, closed, ovars>>

\* Silencer.__exit__ (34-43), run by the with statement whether the body
\* returned or raised; it returns None, so an exception keeps propagating.
SilencerExit ==
    /\ pc = "s_exit"
    /\ LET t1 == RestoredFrom(fds, silencer._stdout_save, 1)
           t2 == RestoredFrom(t1, silencer._stderr_save, 2)
       IN fds' = Close(Close(Close(Close(t2, silencer._stdout_null),
                                   silencer._stdout_save),
                             silencer._stderr_null),
                       silencer._stderr_save)
    /\ closed' = closed \o << silencer._stdout_null, silencer._stdout_save,
                              silencer._stderr_null, silencer._stderr_save >>
    /\ pc' = "s_done"
    /\ UNCHANGED <<exc, silencer, written, ovars>>

NextSilencer == SilencerInit \/ SilencerEnter \/ SilencerBody \/ SilencerExit

SpecSilencer == InitSilencer /\ [][NextSilencer]_vars

\* ================================================================= claims

\* The states get_job answered with, in call order.
Answers == SelectSeq(calls, LAMBDA c : c.op = "get_job" /\ c.res # "raise")
GetJobCalls == CallCount("get_job")
InPoll == pc \in {"poll_state", "poll_progress", "poll_max", "poll_decide"}
\* the last iteration followed has fetched a non-terminal state
Capped == InPoll /\ polls = MaxPolls /\ state \notin Terminal
GetJobFailed == Issued("get_job", "raise")
Returned == success # "unset"

\* C1: once init_project has returned a project, the remote close-project
\* call for it is issued exactly once on every exit path of the run.
C1_ClosedExactlyOnce ==
    /\ CallCount("close_project") <= 1
    /\ (pc = "done" /\ project # "none") => CallCount("close_project") = 1

\* C2: on every exit path of a session acquisition, including a failed
\* attach, start or login, Sirius.shutdown is invoked before the run ends.
C2_ShutdownOnEveryExit ==
    pc = "done" => Logged("TEMP", "Shutting down SIRIUS service...")

\* C3: attach is attempted first; start_sirius is called only after attach
\* returned no handle, never after it returned one, so at most one of the
\* two yields the handle the session uses.
C3_AttachBeforeStart ==
    /\ pc # "connect" => calls[1].op = "attach_to_sirius"
    /\ CallCount("attach_to_sirius") <= 1
    /\ CallCount("start_sirius") <= 1
    /\ \A i \in 1..Len(calls) :
          calls[i].op = "start_sirius" =>
             i = 2 /\ calls[1] = Call("attach_to_sirius", "none")
    /\ ~(Issued("attach_to_sirius", "handle") /\ Called("start_sirius"))
    /\ api = "attached" <=> Issued("attach_to_sirius", "handle")
    /\ api = "started" <=> Issued("start_sirius", "handle")

C3_Witness ==
    /\ session = "open"
    /\ api = "started"
    /\ calls[1] = Call("attach_to_sirius", "none")

\* C4: connected, not authenticated and without credentials, login is
\* skipped with a WARNING and the acquisition still succeeds: the run goes
\* on to create its project.
C4_NoCredentialsNotFailure ==
    Logged("WARNING", "SIRIUS account credentials not specified!") =>
        /\ session # "failed"
        /\ pc = "done" => Called("create_project")

\* list-projects answered a non-empty list
C5_Refused == Issued("get_projects", "open")

\* C5: shutdown never issues the actuator shutdown call while list-projects
\* answers a non-empty list; it then logs a WARNING, raises nothing and
\* leaves the outcome of the run as it was; the call is issued only after
\* list-projects answered the empty list.
C5_ShutdownRefusal ==
    /\ [](/\ \A i \in 1..Len(calls) :
               calls[i].op = "shutdown" =>
                  i > 1 /\ calls[i-1] = Call("get_projects", "empty")
          /\ C5_Refused =>
               /\ ~Called("shutdown")
               /\ calls[Len(calls)] = Call("get_projects", "open")
               /\ log[Len(log)] \in
                    { Entry("WARNING", "SIRIUS service cannot be shut down due to running projects!"),
                      Entry("TEMP", "Exporting SIRIUS results...") }
               /\ svc.alive)
    /\ [][ (pc = "exit" /\ svc.projects # {}
               /\ calls' # Append(calls, Call("get_projects", "raise")))
           => /\ exc' = exc
              /\ svc' = svc
              /\ pc' = (IF exc = "none" THEN "export" ELSE "done")
              /\ status' = (IF exc = "none" THEN status ELSE 1) ]_vars

C5_Witness ==
    /\ pc = "done"
    /\ C5_Refused
    /\ status = 0
    /\ exported

\* C6: after a successful submission start_job returns True exactly when
\* the state it observed is DONE, False exactly when it is CANCELED or
\* FAILED, and for these terminal states it never raises.
C6_TerminalStateReturns ==
    /\ success = "True" => state = "DONE"
    /\ success = "False" => state \in {"CANCELED", "FAILED"}
    /\ (state \in Terminal /\ ~InPoll) =>
          success = (IF state = "DONE" THEN "True" ELSE "False")

\* index of the first terminal state in a sequence of get-job answers
FirstTerminal(seq) ==
    CHOOSE k \in 1..Len(seq) :
        /\ seq[k].res \in Terminal
        /\ \A j \in 1..(k-1) : seq[j].res \notin Terminal

\* C7: if the first terminal state is the k-th answer to get-job, start_job
\* returns after exactly k get-job calls (RUNNING, RUNNING, DONE: 3 calls)
\* and makes no further remote call.
C7_ReturnsAtFirstTerminalAnswer ==
    Returned => GetJobCalls = FirstTerminal(Answers)

\* C8 as stated: if the remote job reaches a terminal state (and so stays
\* there), start_job eventually returns.
C8_TerminalJobLeadsToReturn ==
    (InPoll /\ svc.job \in Terminal /\ ~Capped) ~> Returned

\* the safety part of C8: no return on a non-terminal state, one 10-unit
\* sleep between two iterations, none after a terminal state
C8_Sleeps ==
    /\ Returned => state \in Terminal
    /\ sleeps = (IF pc = "poll_state" \/ polls = 0 THEN polls ELSE polls - 1)
    /\ clock = 10 * sleeps
               + (IF Called("start_sirius") /\ ~Issued("start_sirius", "raise")
                    THEN 10 ELSE 0)
    /\ state \in Terminal => sleeps = polls - 1

\* C8 amended: a terminal remote job makes start_job return unless a get-job
\* call raises; start_job never returns on a non-terminal state; the loop
\* sleeps 10 units exactly once between two iterations and not at all once
\* a terminal state has been observed.
C8_BoundedOnlyByRemoteJob ==
    /\ []C8_Sleeps
    /\ (InPoll /\ svc.job \in Terminal /\ ~Capped) ~> (Returned \/ GetJobFailed)

C8_Witness ==
    /\ success = "True"
    /\ polls = 3
    /\ sleeps = 2

\* C9: when the job ends CANCELED or FAILED, retrieve_results is never
\* called in that run, and the False result of start_job ends the run as a
\* fatal failure.
C9_NoHarvestAfterFailedJob ==
    /\ svc.job \in {"CANCELED", "FAILED"} =>
          /\ pc # "retrieve"
          /\ ~Called("get_aligned_features")
          /\ results = "unbound"
    /\ (success = "False" /\ pc \notin {"check_success", "except"}) =>
          Logged("ERROR", "SIRIUS processing failed.")
    /\ (success = "False" /\ pc = "done") => (status = 1 /\ ~exported)

C9_Witness ==
    /\ pc = "done"
    /\ success = "False"
    /\ svc.job = "CANCELED"
    /\ status = 1

\* C10: in the job specification built by init_job, compound-class and
\* de-novo prediction are off whenever structure-database search is off,
\* and equal the config toggles when it is on.
C10_StagesNeedStructureSearch ==
    job # NoJob =>
        /\ job.structure_db_search_enabled = cfg.structure_db_search_enabled
        /\ ~cfg.structure_db_search_enabled =>
              (~job.canopus_enabled /\ ~job.ms_novelist_enabled)
        /\ cfg.structure_db_search_enabled =>
              /\ job.canopus_enabled = cfg.canopus_enabled
              /\ job.ms_novelist_enabled = cfg.ms_novelist_enabled

C10_Witness ==
    /\ job # NoJob
    /\ ~cfg.structure_db_search_enabled
    /\ cfg.canopus_enabled
    /\ cfg.ms_novelist_enabled
    /\ ~job.canopus_enabled
    /\ ~job.ms_novelist_enabled

\* C11: every exception raised during the run, from session acquisition to
\* result retrieval, is caught by run(), logged by it at ERROR with the
\* exception as message, and ends the process with a non-zero status, the
\* cleanup of a created project having run.
C11_RunnerCatchesEveryException ==
    (pc = "done" /\ exc # "none") =>
        /\ status = 1
        /\ session = "failed" => Logged("ERROR", exc)
        /\ project # "none" => Called("delete_jobs")

\* --------------------------------------------- claims about the harvest

Blank(f) == f.top_annotations.formula_annotation = None
HasRowFor(t, e) == \E l \in DOMAIN t.rows : t.rows[l].ExternalID = e

\* a row for external id ext sits in one of the five buffers
BufferedFor(ext) ==
    \/ \E i \in 1..Len(annotations) : annotations[i].ExternalID = ext
    \/ \E i \in 1..Len(formulas) : formulas[i].kind = "table" /\ HasRowFor(formulas[i], ext)
    \/ \E i \in 1..Len(classes) : HasRowFor(classes[i], ext)
    \/ \E i \in 1..Len(structures) : HasRowFor(structures[i], Val(ext))
    \/ \E i \in 1..Len(denovo) : HasRowFor(denovo[i], Val(ext))

\* retrieve_results has returned its tables
Harvested == pc = "finally"

\* a row for external id ext is in one of the tables returned
ReturnedFor(ext) ==
    /\ Harvested
    /\ \/ \E T \in {results.SiriusTopAnnotations, results.SiriusFormulas, results.SiriusClasses} :
             T # None /\ HasRowFor(T, ToInt(ext))
       \/ \E T \in {results.SiriusStructures, results.SiriusDeNovoStructures} :
             T # None /\ HasRowFor(T, Val(ToInt(ext)))
       \/ /\ results.SiriusFingerprints # None
          /\ ToInt(ext) \in DOMAIN results.SiriusFingerprints.rows

\* the positions in calls of the remote calls made for feature feat_id
CallsFor(feat_id) ==
    { i \in 1..Len(calls) : "feat" \in DOMAIN calls[i] /\ calls[i].feat = feat_id }

\* the step is the answer of get_aligned_feature for a feature without a
\* formula annotation
SkipStep ==
    /\ pc = "h_feature"
    /\ Blank(TheFeature)
    /\ calls' = Append(calls, FeatCall("get_aligned_feature", FeatId, "ok"))

\* C12: a feature without a formula annotation is skipped entirely: no row
\* for it in any buffer or returned table (fingerprints included), no
\* candidate fetch for it, and the step that skips it leaves the buffers
\* and the tree-id counter as they were and raises nothing.
C12_UnannotatedFeatureSkipped ==
    /\ [](\A k \in 1..Len(features) :
            Blank(features[k]) =>
              /\ ~BufferedFor(features[k].external_feature_id)
              /\ ~ReturnedFor(features[k].external_feature_id)
              /\ \A i \in CallsFor(features[k].aligned_feature_id) :
                    calls[i].op = "get_aligned_feature")
    /\ [][SkipStep =>
            /\ UNCHANGED <<annotations, formulas, classes, structures, denovo,
                           class_tree_id, exc>>
            /\ pc' \in {"h_feature", "h_fingerprints"}]_vars

C12_Witness ==
    /\ Harvested
    /\ Len(features) = 2
    /\ Blank(features[1])
    /\ ~Blank(features[2])
    /\ results.SiriusClasses # None
    /\ class_tree_id = 2

\* the lineages the service holds: formula candidates with compound
\* classes, of the features that have a formula annotation
Lineages ==
    UNION { { << k, i >> :
                i \in { j \in 1..Len(features[k].formula_candidates) :
                          features[k].formula_candidates[j].compoundClasses # None } } :
            k \in { n \in 1..Len(features) : ~Blank(features[n]) } }

\* C13: the k-th lineage harvested carries tree id k in all of its rows
\* (so ids start at 1, rise by harvest order and are shared by no two
\* lineages), its rows are those of one formula candidate of one feature,
\* a complete harvest with class prediction has one lineage table per
\* candidate with compound classes, and the counter is set to 1 whenever
\* retrieve_results is entered.
C13_TreeIdPerLineage ==
    /\ [](/\ \A k \in 1..Len(classes) :
               \A l \in DOMAIN classes[k].rows :
                  /\ classes[k].rows[l].TreeID = k
                  /\ \A m \in DOMAIN classes[k].rows :
                        /\ classes[k].rows[m].ExternalID = classes[k].rows[l].ExternalID
                        /\ classes[k].rows[m].SiriusFormulaID = classes[k].rows[l].SiriusFormulaID
          /\ pc # "retrieve" => class_tree_id = Len(classes) + 1
          /\ (Harvested /\ job.canopus_enabled) =>
                /\ Len(classes) = Cardinality(Lineages)
                /\ results.SiriusClasses # None =>
                     \A l, m \in DOMAIN results.SiriusClasses.rows :
                        l <= m => results.SiriusClasses.rows[l].TreeID
                                    <= results.SiriusClasses.rows[m].TreeID)
    /\ [][pc = "retrieve" => class_tree_id' = 1]_vars

\* two features with one lineage of three levels each: 1,1,1 then 2,2,2
C13_Witness ==
    /\ Harvested
    /\ Len(classes) = 2
    /\ classes[1].rows[0].ExternalID # classes[2].rows[0].ExternalID
    /\ DOMAIN classes[1].rows = 0..2
    /\ DOMAIN classes[2].rows = 0..2
    /\ \A l \in 0..2 : classes[1].rows[l].TreeID = 1 /\ classes[2].rows[l].TreeID = 2

\* table has exactly one row per candidate ranked at most max_rank, none
\* for the others, each row with the database ids of its own candidate
CapHolds(table, candidates, max_rank, dbs) ==
    LET within == { i \in 1..Len(candidates) : candidates[i].rank <= max_rank }
        RowOf(i, l) ==
            /\ table.rows[l].InChIKey = Val(candidates[i].inchiKey)
            /\ table.rows[l].Rank = Val(candidates[i].rank)
            /\ table.rows[l].ids = DbIds(candidates[i].dbLinks.v, dbs)
    IN /\ Cardinality(DOMAIN table.rows) = Cardinality(within)
       /\ \A l \in DOMAIN table.rows : \E i \in within : RowOf(i, l)
       /\ \A i \in within : \E l \in DOMAIN table.rows : RowOf(i, l)

\* C14: whatever the order of the ranks and whatever the cap N, the table
\* built from a list of structure (de-novo) candidates has exactly one row
\* per candidate of rank <= N, no row of rank > N, and each row carries the
\* database ids of its own candidate.
C14_RankCapKeepsOwnIds ==
    /\ \A k \in 1..Len(structures) :
          CapHolds(structures[k], features[1].structure_candidates,
                   cfg.structure_db_search_candidates, cfg.structure_db_search_dbs)
    /\ \A k \in 1..Len(denovo) :
          CapHolds(denovo[k], features[1].denovo_candidates,
                   cfg.ms_novelist_candidates, cfg.structure_db_search_dbs)

\* the claim's example: ranks 1, 2, 3 (and more) in rising order, capped
\* at 3, give the three rows of ranks 1, 2, 3 with their own ids
C14_SortedExample ==
    (/\ Len(structures) = 1
     /\ cfg.structure_db_search_candidates = 3
     /\ \A i \in 1..Len(features[1].structure_candidates) :
           features[1].structure_candidates[i].rank = i)
    => CapHolds(structures[1], features[1].structure_candidates,
                cfg.structure_db_search_candidates, cfg.structure_db_search_dbs)

\* retrieve_results has ended, by a return or by an exception
HarvestEnded == pc \in {"finally", "except"}
RemoteFailure == \E i \in 1..Len(calls) : calls[i].res = "raise"

\* no feature contributes a formula row: each lacks a formula annotation
\* or has an empty list of formula candidates
NoFormulaRows ==
    \A k \in 1..Len(features) :
        Blank(features[k]) \/ features[k].formula_candidates = << >>

\* C15: when the harvest yields no formula row for any feature (a feature
\* with a formula annotation and an empty candidate list included) and no
\* remote call fails, retrieve_results returns without raising and the
\* formulas table is the 'no result' marker, so no formulas artifact is
\* written.  Stated for runs that do not save fingerprints (the default of
\* SiriusConfig, line 57), where the formula tables are the only concern.
C15_NoFormulaRowsNoArtifact ==
    (HarvestEnded /\ ~RemoteFailure /\ NoFormulaRows
       /\ ~cfg.fingerprint_prediction_save) =>
        /\ Harvested
        /\ exc = "none"
        /\ results.SiriusFormulas = None

\* ------------------------------------- claims about the input features

\* the input adduct holds one of the tokens "2M", "+2", "+3", "-2", "-3",
\* "MeOH", "ACN", "-e", "+e"
Blacklisted(adduct) ==
    \E token \in { << "2", "M" >>,
                  << "+", "2" >>,
                  << "+", "3" >>,
                  << "-", "2" >>,
                  << "-", "3" >>,
                  << "M", "e", "O", "H" >>,
                  << "A", "C", "N" >>,
                  << "-", "e" >>,
                  << "+", "e" >> } :
        Contains(adduct, token)

\* The normalizer turned input feature k into the given adduct and charge,
\* the mass being the neutral mass shifted by sign proton masses.
NormalizedTo(k, adduct, sign) ==
    /\ loaded[k].detectedAdducts = << adduct >>
    /\ loaded[k].charge = sign
    /\ loaded[k].ionMass = data[k].MW + sign * ProtonMass

Mismatched(feat) ==
    \/ Len(feat.MS1Spectrum.Masses) # Len(feat.MS1Spectrum.Intensities)
    \/ \E k \in 1..Len(feat.MS2Spectra) :
          Len(feat.MS2Spectra[k].Masses) # Len(feat.MS2Spectra[k].Intensities)

\* C17: a spectrum whose Masses and Intensities differ in length makes the
\* building of the feature fail: no feature is built from such an input,
\* and no peak list is shorter than the arrays it was built from.
C17_LengthMismatchFailsFast ==
    pc # "load_features" =>
        \A k \in 1..Len(loaded) :
            /\ ~Mismatched(data[k])
            /\ Len(loaded[k].mergedMs1.peaks) = Len(data[k].MS1Spectrum.Masses)
            /\ Len(loaded[k].mergedMs1.peaks) = Len(data[k].MS1Spectrum.Intensities)

\* the feature the service holds under external id ext
FeatureOf(ext) ==
    features[CHOOSE k \in 1..Len(features) : features[k].external_feature_id = ext]

StructureKeys == { "CSIFingerIDName", "CSIFingerIDInChIKey", "CSIFingerIDScore",
                   "CSIFingerIDTanimotoSimilarity", "CSIFingerIDConfidenceExact",
                   "CSIFingerIDConfidenceApprox" }
LevelKeys == << "ClassyFireLevel1", "ClassyFireLevel2", "ClassyFireLevel3",
                "ClassyFireLevel4", "ClassyFireLevel5", "ClassyFireLevel6" >>
AnnotationKeys ==
    { "ExternalID", "FeatureName", "Formula", "FormulaScore" }
      \cup StructureKeys \cup { LevelKeys[j] : j \in 1..Len(LevelKeys) }

\* the ClassyFire lineage of the top annotation, empty when there is none
TopLineage(f) ==
    IF f.top_annotations.compound_class_annotation = None THEN << >>
    ELSE f.top_annotations.compound_class_annotation.classy_fire_lineage

\* C18: the annotation row of a feature has the same keys whether or not
\* the feature has a structure annotation; without one the six CSIFingerID
\* fields are the empty string; each ClassyFireLevel field is the empty
\* string when there is no lineage or the lineage is shorter than that
\* level, and the name of that level otherwise; building the row raises
\* nothing.
C18_PlaceholdersForMissingAnnotation ==
    /\ \A k \in 1..Len(annotations) :
        LET row == annotations[k]
            f == FeatureOf(row.ExternalID)
        IN /\ DOMAIN row \ {"topFingerprint"} = AnnotationKeys
           /\ f.top_annotations.structure_annotation = None =>
                 \A key \in StructureKeys : row[key] = ""
           /\ f.top_annotations.structure_annotation # None =>
                 row.CSIFingerIDName = f.top_annotations.structure_annotation.structure_name
           /\ \A j \in 1..Len(LevelKeys) :
                 row[LevelKeys[j]] = IF Len(TopLineage(f)) < j THEN ""
                                     ELSE TopLineage(f)[j].name
    /\ pc = "h_formulas" =>
          /\ exc = "none"
          /\ Len(annotations) > 0
          /\ annotations[Len(annotations)].ExternalID = ExtId

\* a feature with a formula, no structure and a lineage of two classes
C18_Witness ==
    /\ pc = "h_formulas"
    /\ Len(annotations) = 1
    /\ FeatureOf(annotations[1].ExternalID).top_annotations.structure_annotation = None
    /\ Len(TopLineage(FeatureOf(annotations[1].ExternalID))) = 2
    /\ annotations[1].CSIFingerIDScore = ""
    /\ annotations[1].ClassyFireLevel2 = "superclass"
    /\ annotations[1].ClassyFireLevel3 = ""

ClassFetch == "get_formula_candidates(compoundClasses)"
StructureFetch == "get_structure_candidates"
DenovoFetch == "get_de_novo_structure_candidates"

\* C19: the class fetch is issued only for a job with class prediction
\* enabled, the structure fetch only with structure search enabled, the
\* de-novo fetch only with de-novo prediction enabled; a disabled stage
\* makes no remote call, buffers no fragment, and its table is returned as
\* the 'no result' marker; with structure search disabled in the config
\* none of the three fetches is issued.
C19_FetchesFollowJobToggles ==
    /\ Called(ClassFetch) => job.canopus_enabled
    /\ Called(StructureFetch) => job.structure_db_search_enabled
    /\ Called(DenovoFetch) => job.ms_novelist_enabled
    /\ ~job.canopus_enabled =>
          (classes = << >> /\ (Harvested => results.SiriusClasses = None))
    /\ ~job.structure_db_search_enabled =>
          (structures = << >> /\ (Harvested => results.SiriusStructures = None))
    /\ ~job.ms_novelist_enabled =>
          (denovo = << >> /\ (Harvested => results.SiriusDeNovoStructures = None))
    /\ ~cfg.structure_db_search_enabled =>
          ~(Called(ClassFetch) \/ Called(StructureFetch) \/ Called(DenovoFetch))

\* structure search off in the config, the two other toggles on: a feature
\* with classes, structures and de-novo candidates was harvested and only
\* its annotation and formulas came back
C19_Witness ==
    /\ Harvested
    /\ ~cfg.structure_db_search_enabled
    /\ cfg.canopus_enabled
    /\ cfg.ms_novelist_enabled
    /\ \E k \in 1..Len(features) :
          /\ features[k].structure_candidates # << >>
          /\ features[k].denovo_candidates # << >>
          /\ Lineages # {}
    /\ results.SiriusFormulas # None
    /\ results.SiriusClasses = None
    /\ results.SiriusStructures = None
    /\ results.SiriusDeNovoStructures = None
    /\ ~Called(ClassFetch)

\* positions in calls of the per-feature calls
FeatureCalls == { i \in 1..Len(calls) : "feat" \in DOMAIN calls[i] }

\* the external id, as a number, of the feature with id feat_id, and the
\* place of feat_id in the list get_aligned_features returned
ExtOf(feat_id) ==
    ToInt(features[CHOOSE k \in 1..Len(features) :
                     features[k].aligned_feature_id = feat_id].external_feature_id)
PlaceOf(feat_id) == CHOOSE k \in 1..Len(feature_ids) : feature_ids[k] = feat_id

\* C20 as stated: the per-feature fetches are issued one feature at a
\* time and the features are visited in increasing order of external id,
\* so along the calls the external id never decreases.
C20_FetchesInExternalIdOrder ==
    \A i, j \in FeatureCalls :
        i < j => ExtOf(calls[i].feat) <= ExtOf(calls[j].feat)

\* C20, amended: the per-feature fetches are issued one feature at a time,
\* all fetches for a feature before any for the next, and the features
\* are visited in the order in which get_aligned_features listed them.
C20_FetchesInListOrder ==
    /\ \A i, j \in FeatureCalls :
          i < j => PlaceOf(calls[i].feat) <= PlaceOf(calls[j].feat)
    /\ \A i \in FeatureCalls : PlaceOf(calls[i].feat) <= fi
    /\ pc \in {"h_formulas", "h_classes", "h_structures", "h_denovo"} =>
          \E i \in FeatureCalls : calls[i] = FeatCall("get_aligned_feature", FeatId, "ok")

\* two annotated features, listed against the order of their external
\* ids, both harvested
C20_Witness ==
    /\ Harvested
    /\ Len(features) = 2
    /\ ToInt(features[1].external_feature_id) > ToInt(features[2].external_feature_id)
    /\ \A k \in 1..2 :
          \E i \in FeatureCalls :
              calls[i] = FeatCall("get_formula_candidates", features[k].aligned_feature_id, "ok")

\* ------------------------------------- claims about failures and clean-up

\* a step whose last remote call raised
RaisingStep ==
    /\ Len(calls') > Len(calls)
    /\ calls'[Len(calls')].res = "raise"

\* log lines written by a step
Written == { i \in 1..Len(log') : i > Len(log) }

\* no remote operation is called again after a call of it has raised
NoRetry ==
    \A i, j \in 1..Len(calls) :
        (i < j /\ calls[i].res = "raise") => calls[j].op # calls[i].op

\* C21: whenever a remote call of the session manager, the job orchestrator
\* or the result harvester raises, the component writes an ERROR log line
\* in the same operation, before the exception leaves it, and the call is
\* not issued again.
C21_RemoteFailureLoggedAtError ==
    /\ [][RaisingStep => \E i \in Written : log'[i].level = "ERROR"]_vars
    /\ []NoRetry

\* ------------------------------------------ claims about the database ids

\* the structure candidates of the feature have been fetched
StructuresFetched ==
    \E i \in 1..Len(calls) :
        calls[i] = FeatCall("get_structure_candidates", FeatureId(1), "ok")

\* the value the claim expects in column db of a candidate: the id of the
\* first link named db in any case, the empty value when there is none
\* (no links, links to other databases only, dbLinks absent)
ExpectedId(candidate, db) ==
    IF candidate.dbLinks = None THEN None
    ELSE LET links == candidate.dbLinks.v
             named == { i \in 1..Len(links) : Upper(links[i].name) = db }
         IN IF named = {} THEN None
            ELSE Val(links[CHOOSE i \in named : \A j \in named : i <= j].id)

\* C22: for every structure candidate the extraction yields exactly one
\* value per configured database, in the column named by the upper-cased
\* database name: the id of the first link whose name equals the database
\* name case-insensitively, or an empty value; it never raises, whether the
\* candidate's links are empty, absent or to other databases only.
C22_OneIdPerConfiguredDatabase ==
    StructuresFetched =>
        /\ exc # "TypeError"
        /\ Len(structures) = 1
        /\ \A i \in 1..Len(features[1].structure_candidates) :
              LET candidate == features[1].structure_candidates[i]
                  row == structures[1].rows[i - 1]
              IN /\ row.InChIKey = Val(candidate.inchiKey)
                 /\ DOMAIN row.ids = { "PUBCHEM", "HMDB" }
                 /\ \A db \in DOMAIN row.ids : row.ids[db] = ExpectedId(candidate, db)

\* the same, for candidates that all carry a list of links (holds)
C22_LinkedCandidates ==
    (/\ StructuresFetched
     /\ \A i \in 1..Len(features[1].structure_candidates) :
           features[1].structure_candidates[i].dbLinks # None)
    => /\ exc # "TypeError"
       /\ Len(structures) = 1
       /\ \A i \in 1..Len(features[1].structure_candidates) :
             LET candidate == features[1].structure_candidates[i]
                 row == structures[1].rows[i - 1]
             IN /\ row.InChIKey = Val(candidate.inchiKey)
                /\ DOMAIN row.ids = { "PUBCHEM", "HMDB" }
                /\ \A db \in DOMAIN row.ids : row.ids[db] = ExpectedId(candidate, db)

\* ------------------------------------------- claims about the Silencer

\* the four descriptors the Silencer opened
Opened ==
    { silencer._stdout_null, silencer._stdout_save,
      silencer._stderr_null, silencer._stderr_save }

\* the suppression flag of descriptor 1 or 2
Suppressed(fd) == IF fd = 1 THEN silencer._stdout ELSE silencer._stderr

\* C23: in every Silencer scope, whether its body returns or raises, the
\* duplicates of descriptors 1 and 2 are taken before any redirection and
\* refer to the streams of before the scope; a descriptor whose flag is
\* false refers to its own stream throughout the body; after the scope
\* descriptors 1 and 2 refer to the streams of before, and each of the four
\* descriptors the Silencer opened has been closed exactly once.
C23_DescriptorsSavedAndRestored ==
    /\ pc \in {"s_enter", "s_body", "s_exit"} =>
          /\ Cardinality(Opened) = 4
          /\ fds[silencer._stdout_save] = before[1]
          /\ fds[silencer._stderr_save] = before[2]
    /\ pc \in {"s_body", "s_exit"} =>
          \A fd \in {1, 2} : ~Suppressed(fd) => fds[fd] = before[fd]
    /\ \A i \in 1..Len(written) :
          ~Suppressed(written[i].fd) => written[i].stream = before[written[i].fd]
    /\ pc = "s_done" =>
          /\ fds[1] = before[1]
          /\ fds[2] = before[2]
          /\ Opened \cap DOMAIN fds = {}
          /\ Len(closed) = 4
          /\ \A fd \in Opened : Cardinality({ i \in 1..Len(closed) : closed[i] = fd }) = 1

\* the scope of __enter__ as the Sirius session uses it (stdout kept,
\* stderr silenced) left by an exception: the diagnostics of the body went
\* to the null device, the log line to stdout, and both descriptors are back
C23_Witness ==
    /\ pc = "s_done"
    /\ session = "acquiring"
    /\ exc = "RemoteError"
    /\ ~silencer._stdout
    /\ silencer._stderr
    /\ written = << [ fd |-> 1, stream |-> "stdout" ], [ fd |-> 2, stream |-> "null2" ] >>
    /\ fds[2] = "stderr"
    /\ closed = << 3, 4, 5, 6 >>

\* ------------------------------------------------ claims about the export

\* position of the first log line with the given text, 0 when not written
LineOf(msg) ==
    IF \E i \in 1..Len(log) : log[i].msg = msg
      THEN CHOOSE i \in 1..Len(log) :
               log[i].msg = msg /\ \A j \in 1..(i - 1) : log[j].msg # msg
      ELSE 0

\* some remote call of the run raised, or an error was logged
Failed ==
    \/ \E i \in 1..Len(calls) : calls[i].res = "raise"
    \/ \E i \in 1..Len(log) : log[i].level = "ERROR"

\* C24: run() writes the result artifacts only after the project of the run
\* has been closed and shutdown() has been entered, and only when the job
\* ended DONE and the retrieval returned its results; a run in which the
\* orchestration body hit an exception writes no artifact.
C24_ExportOnlyAfterCleanRun ==
    exported =>
        /\ Issued("delete_jobs", "ok")
        /\ Issued("close_project", "ok")
        /\ RunProject \notin svc.projects
        /\ session = "closed"
        /\ Called("get_projects")
        /\ 0 < LineOf("Closing SIRIUS jobs and project...")
        /\ LineOf("Closing SIRIUS jobs and project...") < LineOf("Shutting down SIRIUS service...")
        /\ LineOf("Shutting down SIRIUS service...") < LineOf("Exporting SIRIUS results...")
        /\ state = "DONE"
        /\ success = "True"
        /\ results = "tables"
        /\ ~Failed
        /\ exc = "none"
        /\ status = 0

\* an export after several polls, the service left running because another
\* client holds a project
C24_Witness ==
    /\ exported
    /\ polls > 1
    /\ Issued("close_project", "ok")
    /\ calls[Len(calls)] = Call("get_projects", "open")
    /\ svc.alive
====
